---------------------------- MODULE Spec2Model ----------------------------
(***************************************************************************)
(* CineFeels: the emotion-matching and recommendation-ranking engine.      *)
(*                                                                         *)
(* A number is a rational [n, d] kept in lowest terms with d > 0, so that   *)
(* equality of two numbers is equality of the records.  The scorer's numpy *)
(* arithmetic is binary floating point, rounded to nearest (ties to even)  *)
(* after every operation; its floats carry MantissaBits significant bits   *)
(* where a float64 carries 53, and have no exponent limits.                *)
(* A Python dict is a function whose DOMAIN is the set of its keys; a      *)
(* missing key is a key outside the DOMAIN.                                *)
(***************************************************************************)
EXTENDS Integers, Sequences, FiniteSets, TLC

VARIABLES
    movies,   \* the document store's movies collection, in natural order
    graph,    \* the graph store: the User nodes and their WATCHED relationships
    accounts, \* the graph store: what hangs on a User node found by its email
    requests, \* the requests in progress in the server's workers
    op,       \* the last operation called, with its arguments
    result    \* what that operation returned

vars == <<movies, graph, accounts, requests, op, result>>

\* The graph store before any user has registered: `users` is the set of the
\* user_id of the User nodes, `watched` maps <<user_id, movie_id>> to the
\* properties of the WATCHED relationship between the two nodes.
EmptyGraph == [users |-> {}, watched |-> [pair \in {} |-> [liked |-> FALSE]]]

\* The same store seen through the statements that find a User node by its
\* email: `users` holds the User nodes in creation order (a node is its
\* position), `performed` the Analysis nodes with the node each hangs on,
\* `wants` the WANTS_TO_WATCH relationships.
EmptyAccounts == [users |-> <<>>, performed |-> <<>>, wants |-> <<>>]

\* The number of worker processes serving requests against the one store.
MaxWorkers == 2

Workers == 1..MaxWorkers

\* No worker is serving a request.
NoRequests == [w \in Workers |-> [name |-> "idle"]]

---------------------------------------------------------------------------
(* Exact rational arithmetic standing for Python / numpy floats.           *)

Abs(x) == IF x < 0 THEN -x ELSE x

GCD[a \in Nat, b \in Nat] == IF b = 0 THEN a ELSE GCD[b, a % b]

\* n / d with the common factor g taken out and the sign s of d moved up.
Reduced(n, d, g, s) == [n |-> (s * n) \div g, d |-> (s * d) \div g]

\* n / d in lowest terms, the denominator positive.
Rat(n, d) == Reduced(n, d, GCD[Abs(n), Abs(d)], IF d < 0 THEN -1 ELSE 1)

Zero == [n |-> 0, d |-> 1]
One == [n |-> 1, d |-> 1]
Tenths(x) == Rat(x, 10)
Hundredths(x) == Rat(x, 100)

\* a + b over the least common denominator, g the common factor of the two.
AddOver(a, b, g) == Rat(a.n * (b.d \div g) + b.n * (a.d \div g), (a.d \div g) * b.d)
RatAdd(a, b) == AddOver(a, b, GCD[a.d, b.d])
RatMul(a, b) == Rat(a.n * b.n, a.d * b.d)
RatDiv(a, b) == Rat(a.n * b.d, a.d * b.n)
RatLeq(a, b) == a.n * b.d <= b.n * a.d
RatLess(a, b) == a.n * b.d < b.n * a.d
\* Python's max(a, b) and min(a, b): the first argument wins a tie.
RatMax(a, b) == IF RatLess(a, b) THEN b ELSE a
RatMin(a, b) == IF RatLess(b, a) THEN b ELSE a

\* The sum of f[k] over the keys k in S (a += loop over exact values).
RECURSIVE RatSum(_, _)
RatSum(f, S) ==
    IF S = {} THEN Zero
    ELSE LET k == CHOOSE x \in S : TRUE
         IN  RatAdd(f[k], RatSum(f, S \ {k}))

---------------------------------------------------------------------------
(* numpy float64 arithmetic, at MantissaBits significant bits.             *)

\* The significant bits of a float of the model.
MantissaBits == 7

\* The numbers: n / d.
Numbers == [n : Int, d : Nat]

\* The least shift s >= e with a * 2^s >= d * 2^(MantissaBits - 1).
ShiftUp[a \in Nat, d \in Nat, e \in Nat] ==
    IF a * 2^e >= d * 2^(MantissaBits - 1) THEN e ELSE ShiftUp[a, d, e + 1]

\* The least shift s >= e with a < d * 2^(MantissaBits + s).
ShiftDown[a \in Nat, d \in Nat, e \in Nat] ==
    IF a < d * 2^(MantissaBits + e) THEN e ELSE ShiftDown[a, d, e + 1]

\* (a / d) * 2^(up - down) rounded to an integer, a tie going to the even one.
\* num / den rounded to an integer, a tie going to the even one.
RoundHalfEven(num, den) ==
    IF 2 * (num % den) > den \/ (2 * (num % den) = den /\ (num \div den) % 2 = 1)
    THEN (num \div den) + 1
    ELSE num \div den

\* (a / d) * 2^(up - down) rounded to an integer, a tie going to the even one.
Significand[a \in Nat, d \in Nat, up \in Nat, down \in Nat] ==
    RoundHalfEven(a * 2^up, d * 2^down)

\* sign * (a / d) rounded to a significand of MantissaBits bits, times its
\* power of two 2^(down - up).
Rounded(sign, a, d, up, down) ==
    Rat(sign * Significand[a, d, up, down] * 2^down, 2^up)

\* The float nearest to x, a tie going to the even significand.
Fl[x \in Numbers] ==
    IF x.n = 0 THEN Zero
    ELSE Rounded(IF x.n < 0 THEN -1 ELSE 1, Abs(x.n), x.d,
                 ShiftUp[Abs(x.n), x.d, 0], ShiftDown[Abs(x.n), x.d, 0])

\* a + b, a * b and a / b on floats: the exact result, rounded.
FlAdd[a \in Numbers, b \in Numbers] == Fl[RatAdd(a, b)]
FlMul[a \in Numbers, b \in Numbers] == Fl[RatMul(a, b)]
FlDiv[a \in Numbers, b \in Numbers] == Fl[RatDiv(a, b)]

\* np.array(vector): the values as floats.
Array(vector) == [i \in 1..Len(vector) |-> Fl[vector[i]]]

\* np.sum(array): the elements added in array order, each addition rounded.
RECURSIVE SumTo(_, _)
SumTo(array, i) ==
    IF i = 0 THEN Zero ELSE FlAdd[SumTo(array, i - 1), array[i]]

NpSum(array) == SumTo(array, Len(array))

\* The hash seeds of the processes that serve calls.
HashSeeds == 2

\* The names that occur as keys of a query.
KeyNames ==
    <<"joy", "sadness", "fear", "anger", "surprise", "disgust", "neutral",
      "thrill", "romance", "inspiration", "humor", "nostalgia">>

\* The hash of a key under a seed: the key's number times the seed, modulo
\* the least prime above the number of names.
KeyHash(key, seed) ==
    LET number == CHOOSE i \in 1..Len(KeyNames) : KeyNames[i] = key
    IN  (number * seed) % 13

\* The order in which iterating the set S of keys yields them under `seed`.
\* Python leaves the order of a set of strings to the hashes, which are seeded
\* per process; here the keys come by increasing hash.
RECURSIVE SetOrder(_, _)
SetOrder(S, seed) ==
    IF S = {} THEN <<>>
    ELSE LET first == CHOOSE k \in S :
                        \A other \in S : KeyHash(k, seed) <= KeyHash(other, seed)
         IN  <<first>> \o SetOrder(S \ {first}, seed)

\* The orders in which iterating the set S of dict keys can yield them.
KeyOrders(S) == {SetOrder(S, seed) : seed \in 1..HashSeeds}

---------------------------------------------------------------------------
(* Python dicts.                                                           *)

EmptyDict == [k \in {} |-> Zero]

\* d.get(key, default)
Get(d, key, default) == IF key \in DOMAIN d THEN d[key] ELSE default

\* bool(d) for a dict
Truthy(d) == DOMAIN d # {}

---------------------------------------------------------------------------
(* Emotion dimensions.                                                     *)

\* The CineFeels (derived) emotions tested for in _calculate_similarity.
CineFeelsEmotions == {"thrill", "romance", "inspiration", "humor"}

\* The six base keys of a genre-derived profile, in the order the code lists them.
base_emotion_keys == <<"joy", "sadness", "fear", "anger", "surprise", "disgust">>

\* The keys of combined_emotions.
CombinedKeys ==
    {"joy", "sadness", "fear", "anger", "surprise", "disgust",
     "thrill", "romance", "humor", "inspiration"}

\* max(d, key=d.get) over a dict whose keys iterate in the order `keys`:
\* the first key holding the maximal value.
RECURSIVE MaxKeyFrom(_, _, _, _)
MaxKeyFrom(d, keys, i, best) ==
    IF i > Len(keys) THEN best
    ELSE MaxKeyFrom(d, keys, i + 1,
                    IF RatLess(d[best], d[keys[i]]) THEN keys[i] ELSE best)

\* max() keeping the last of the keys of maximal value instead of the first.
PyMaxKeyLast(d, keys) ==
    LET Maximal == {i \in 1..Len(keys) : \A j \in 1..Len(keys) : RatLeq(d[keys[j]], d[keys[i]])}
    IN  keys[CHOOSE i \in Maximal : \A j \in Maximal : j <= i]

PyMaxKey(d, keys) == MaxKeyFrom(d, keys, 2, keys[1])

---------------------------------------------------------------------------
(* Genre fallback of the recommendation service.                           *)

genre_emotions ==
    ("Action" :> [thrill |-> Tenths(8), fear |-> Tenths(4), surprise |-> Tenths(6), anger |-> Tenths(3), joy |-> Tenths(5)]) @@
    ("Adventure" :> [joy |-> Tenths(7), thrill |-> Tenths(7), surprise |-> Tenths(6), inspiration |-> Tenths(5)]) @@
    ("Animation" :> [joy |-> Tenths(8), humor |-> Tenths(6), surprise |-> Tenths(4)]) @@
    ("Comedy" :> [joy |-> Tenths(9), humor |-> Tenths(9), surprise |-> Tenths(3)]) @@
    ("Crime" :> [fear |-> Tenths(5), anger |-> Tenths(6), thrill |-> Tenths(6), sadness |-> Tenths(3)]) @@
    ("Documentary" :> [inspiration |-> Tenths(5), surprise |-> Tenths(3), sadness |-> Tenths(2)]) @@
    ("Drama" :> [sadness |-> Tenths(6), joy |-> Tenths(3), anger |-> Tenths(3), inspiration |-> Tenths(4)]) @@
    ("Family" :> [joy |-> Tenths(8), humor |-> Tenths(5), romance |-> Tenths(3)]) @@
    ("Fantasy" :> [joy |-> Tenths(6), surprise |-> Tenths(7), thrill |-> Tenths(5), inspiration |-> Tenths(5)]) @@
    ("History" :> [sadness |-> Tenths(4), inspiration |-> Tenths(5), anger |-> Tenths(3)]) @@
    ("Horror" :> [fear |-> Tenths(9), disgust |-> Tenths(5), surprise |-> Tenths(6), thrill |-> Tenths(8)]) @@
    ("Music" :> [joy |-> Tenths(8), romance |-> Tenths(4), inspiration |-> Tenths(6)]) @@
    ("Mystery" :> [fear |-> Tenths(5), surprise |-> Tenths(7), thrill |-> Tenths(6)]) @@
    ("Romance" :> [romance |-> Tenths(9), joy |-> Tenths(7), sadness |-> Tenths(3)]) @@
    ("Science Fiction" :> [thrill |-> Tenths(6), surprise |-> Tenths(7), fear |-> Tenths(4), inspiration |-> Tenths(5)]) @@
    ("TV Movie" :> [joy |-> Tenths(4), sadness |-> Tenths(3)]) @@
    ("Thriller" :> [fear |-> Tenths(7), thrill |-> Tenths(9), surprise |-> Tenths(6), anger |-> Tenths(4)]) @@
    ("War" :> [anger |-> Tenths(6), sadness |-> Tenths(7), fear |-> Tenths(5)]) @@
    ("Western" :> [thrill |-> Tenths(6), anger |-> Tenths(4), joy |-> Tenths(3)])

\* genre_names: the "name" of every genre of the movie (TMDB stores dicts).
GenreNames(genres) == [i \in 1..Len(genres) |-> Get(genres[i], "name", "")]

\* The loop over genre_names overwriting each emotion with the value of the
\* latest genre that has it, instead of keeping the maximum.
RECURSIVE CombineGenresOverwriting(_, _, _)
CombineGenresOverwriting(table, genre_names, i) ==
    IF i = 0 THEN [e \in CombinedKeys |-> Zero]
    ELSE LET prev == CombineGenresOverwriting(table, genre_names, i - 1)
             g == genre_names[i]
         IN  IF g \in DOMAIN table
             THEN [e \in CombinedKeys |->
                     IF e \in DOMAIN table[g] THEN table[g][e] ELSE prev[e]]
             ELSE prev

\* The loop over genre_names: per emotion, the maximum over the genres found
\* in `table`, starting from 0.0.
RECURSIVE CombineGenres(_, _, _)
CombineGenres(table, genre_names, i) ==
    IF i = 0 THEN [e \in CombinedKeys |-> Zero]
    ELSE LET prev == CombineGenres(table, genre_names, i - 1)
             g == genre_names[i]
         IN  IF g \in DOMAIN table
             THEN [e \in CombinedKeys |->
                     IF e \in DOMAIN table[g]
                     THEN RatMax(prev[e], table[g][e]) ELSE prev[e]]
             ELSE prev

\* genre_count: how many of the movie's genres are in the table.
GenreCount(table, genre_names) ==
    Cardinality({i \in 1..Len(genre_names) : genre_names[i] \in DOMAIN table})

\* The default neutral profile returned when no genre is known.
DefaultNeutralEmotions ==
    [base_emotions |-> [joy |-> Tenths(3), sadness |-> Tenths(2), fear |-> Tenths(2),
                        anger |-> Tenths(1), surprise |-> Tenths(2), disgust |-> Tenths(1)],
     thrill |-> Tenths(2), romance |-> Tenths(2), humor |-> Tenths(2),
     inspiration |-> Tenths(2), dominant_emotion |-> "joy"]

\* base_emotions: the six base entries of combined_emotions.
BaseEmotionsOf(combined_emotions) ==
    [k \in {base_emotion_keys[i] : i \in 1..Len(base_emotion_keys)} |-> combined_emotions[k]]

\* The profile the service returns for combined_emotions and its base_emotions.
GenreProfile(combined_emotions, base_emotions) ==
    [base_emotions |-> base_emotions,
     thrill |-> combined_emotions["thrill"],
     romance |-> combined_emotions["romance"],
     humor |-> combined_emotions["humor"],
     inspiration |-> combined_emotions["inspiration"],
     dominant_emotion |-> PyMaxKey(base_emotions, base_emotion_keys)]

\* GenreProfileOf without the default: the combination is returned even when
\* no genre is in the table.
GenreProfileOfCombined(table, genre_names) ==
    GenreProfile(CombineGenres(table, genre_names, Len(genre_names)),
                 BaseEmotionsOf(CombineGenres(table, genre_names, Len(genre_names))))

\* The profile of a movie whose genres are named genre_names, given the table.
GenreProfileOf(table, genre_names) ==
    IF GenreCount(table, genre_names) = 0
    THEN DefaultNeutralEmotions
    ELSE GenreProfile(CombineGenres(table, genre_names, Len(genre_names)),
                      BaseEmotionsOf(CombineGenres(table, genre_names, Len(genre_names))))

generate_emotions_from_genres(movie) ==
    GenreProfileOf(genre_emotions, GenreNames(Get(movie, "genres", <<>>)))

---------------------------------------------------------------------------
(* The similarity scorer.                                                  *)

\* MovieEmotions without the genre fallback: a movie without a profile has
\* no candidate value at all.
MovieEmotionsStoredOnly(movie) == Get(movie, "emotions", EmptyDict)

\* The emotion profile the scorer reads: the stored one, or the one generated
\* from the genres when the movie has none.
MovieEmotions(movie) ==
    LET movie_emotions == Get(movie, "emotions", EmptyDict)
    IN  IF ~Truthy(movie_emotions)
        THEN generate_emotions_from_genres(movie)
        ELSE movie_emotions

\* MovieScore with the legacy flat value read before the nested base_emotions.
MovieScoreFlatFirst(movie_emotions, emotion) ==
    IF emotion \in DOMAIN movie_emotions /\ emotion # "base_emotions"
    THEN movie_emotions[emotion]
    ELSE Get(Get(movie_emotions, "base_emotions", EmptyDict), emotion, Zero)

\* movie_score of one emotion of the query.
MovieScore(movie_emotions, emotion) ==
    IF emotion \in CineFeelsEmotions
    THEN Get(movie_emotions, emotion, Zero)
    ELSE LET base_emotions == Get(movie_emotions, "base_emotions", EmptyDict)
         IN  IF Truthy(base_emotions)
             THEN Get(base_emotions, emotion, Zero)
             ELSE Get(movie_emotions, emotion, Zero)

\* Clamp left out.
ClampNone(weighted_match) == weighted_match

\* Clamp to [0, 1]: min(max(weighted_match, 0.0), 1.0)
Clamp(weighted_match) == RatMin(RatMax(weighted_match, Zero), One)

\* Cosine similarity in place of the weighted match.  The value is the square
\* of the cosine, which needs no square root; it is the cosine itself wherever
\* the cosine is 0 or 1, as it is for every single-dimension query.
calculate_similarity_cosine(user_emotions, movie, emotion_keys) ==
    LET movie_emotions == MovieEmotions(movie)
        dims == 1..Len(emotion_keys)
        user_array == Array([i \in dims |-> user_emotions[emotion_keys[i]]])
        movie_array == Array([i \in dims |-> MovieScore(movie_emotions, emotion_keys[i])])
        dot == NpSum([i \in dims |-> FlMul[user_array[i], movie_array[i]]])
        norms == FlMul[NpSum([i \in dims |-> FlMul[user_array[i], user_array[i]]]),
                       NpSum([i \in dims |-> FlMul[movie_array[i], movie_array[i]]])]
    IN  IF norms = Zero \/ ~RatLess(Zero, dot) THEN Zero
        ELSE Clamp(FlDiv[FlMul[dot, dot], norms])

\* The user weights used as they are, not normalised to sum to 1.
calculate_similarity_unnormalised(user_emotions, movie, emotion_keys) ==
    LET movie_emotions == MovieEmotions(movie)
        dims == 1..Len(emotion_keys)
        user_array == Array([i \in dims |-> user_emotions[emotion_keys[i]]])
        movie_array == Array([i \in dims |-> MovieScore(movie_emotions, emotion_keys[i])])
        user_sum == NpSum(user_array)
        weighted_match ==
            NpSum([i \in dims |-> FlMul[user_array[i], movie_array[i]]])
    IN  IF Len(emotion_keys) = 0 THEN Zero
        ELSE IF user_sum = Zero THEN Zero
        ELSE Clamp(weighted_match)

\* The user_sum == 0 guard left out: numpy divides by zero and the score is
\* nan, written [n |-> 0, d |-> 0].
calculate_similarity_unguarded(user_emotions, movie, emotion_keys) ==
    LET movie_emotions == MovieEmotions(movie)
        dims == 1..Len(emotion_keys)
        user_array == Array([i \in dims |-> user_emotions[emotion_keys[i]]])
        movie_array == Array([i \in dims |-> MovieScore(movie_emotions, emotion_keys[i])])
        user_sum == NpSum(user_array)
    IN  IF Len(emotion_keys) = 0 THEN Zero
        ELSE IF user_sum = Zero THEN [n |-> 0, d |-> 0]
        ELSE LET weights == [i \in dims |-> FlDiv[user_array[i], user_sum]]
                 weighted_match ==
                     NpSum([i \in dims |-> FlMul[weights[i], movie_array[i]]])
             IN  Clamp(weighted_match)

\* _calculate_similarity(user_emotions, movie); emotion_keys is the order in
\* which the loop over set(user_emotions.keys()) meets the keys.
calculate_similarity(user_emotions, movie, emotion_keys) ==
    LET movie_emotions == MovieEmotions(movie)
        dims == 1..Len(emotion_keys)
        user_vector == [i \in dims |-> user_emotions[emotion_keys[i]]]
        movie_vector == [i \in dims |-> MovieScore(movie_emotions, emotion_keys[i])]
        user_array == Array(user_vector)
        movie_array == Array(movie_vector)
        user_sum == NpSum(user_array)
    IN  IF Len(emotion_keys) = 0 THEN Zero
        ELSE IF user_sum = Zero THEN Zero
        ELSE LET weights == [i \in dims |-> FlDiv[user_array[i], user_sum]]
                 weighted_match ==
                     NpSum([i \in dims |-> FlMul[weights[i], movie_array[i]]])
             IN  Clamp(weighted_match)

---------------------------------------------------------------------------
(* The movies collection and its queries.                                  *)

MinOf(a, b) == IF a < b THEN a ELSE b

\* recommendations[:limit] for limit >= 0
Take(s, limit) == SubSeq(s, 1, MinOf(limit, Len(s)))

\* The indexes of `s`, kept in order, whose element satisfies Test.
RECURSIVE FilterSeq(_, _, _)
FilterSeq(s, Test(_), i) ==
    IF i > Len(s) THEN <<>>
    ELSE (IF Test(s[i]) THEN <<s[i]>> ELSE <<>>) \o FilterSeq(s, Test, i + 1)

\* MatchesQuery without the vote_average condition.
MatchesQueryAnyRating(movie, min_rating) == "emotions" \in DOMAIN movie

\* {"emotions": {"$exists": True}} and, when min_rating > 0,
\* {"vote_average": {"$gte": min_rating}}: a document without the field
\* does not match a $gte.
MatchesQuery(movie, min_rating) ==
    /\ "emotions" \in DOMAIN movie
    /\ RatLess(Zero, min_rating) =>
          /\ "vote_average" \in DOMAIN movie
          /\ RatLeq(min_rating, movie["vote_average"])

\* InsertByScore without the ordering: the entries stay in store order.
InsertUnsorted(sorted, rec) == Append(sorted, rec)

\* list.sort(key=similarity_score, reverse=True): stable, so entries of equal
\* score keep their order.  `rec` goes after every entry scoring at least as much.
RECURSIVE InsertByScore(_, _)
InsertByScore(sorted, rec) ==
    IF Len(sorted) = 0 THEN <<rec>>
    ELSE IF RatLess(Head(sorted).similarity_score, rec.similarity_score)
         THEN <<rec>> \o sorted
         ELSE <<Head(sorted)>> \o InsertByScore(Tail(sorted), rec)

RECURSIVE SortByScore(_, _)
SortByScore(recs, i) ==
    IF i = 0 THEN <<>>
    ELSE InsertByScore(SortByScore(recs, i - 1), recs[i])

\* recommendations.sort(...): the whole list sorted.
Sorted(recs) == SortByScore(recs, Len(recs))

recommend_by_emotions(collection, user_emotions, limit, min_rating, emotion_keys) ==
    LET Match(movie) == MatchesQuery(movie, min_rating)
        found == FilterSeq(collection, Match, 1)
        recommendations ==
            [i \in 1..Len(found) |->
                [movie |-> found[i],
                 similarity_score |->
                     calculate_similarity(user_emotions, found[i], emotion_keys)]]
    IN  IF Len(found) = 0 THEN <<>>
        ELSE Take(Sorted(recommendations), limit)

\* find_one({"id": movie_id}): the index of the first such document, 0 for None.
FindOne(collection, movie_id) ==
    IF \E i \in 1..Len(collection) : collection[i]["id"] = movie_id
    THEN CHOOSE i \in 1..Len(collection) :
            /\ collection[i]["id"] = movie_id
            /\ \A j \in 1..(i - 1) : collection[j]["id"] # movie_id
    ELSE 0

\* get_similar_movies asking recommend_by_emotions for `limit` entries, not
\* limit + 1: the reference movie then takes the place of a candidate.
get_similar_movies_unpadded(collection, movie_id, limit, emotion_keys) ==
    LET ref == FindOne(collection, movie_id)
    IN  IF ref = 0 \/ "emotions" \notin DOMAIN collection[ref] THEN <<>>
        ELSE LET emotions == collection[ref]["emotions"]
                 user_emotions ==
                     [thrill |-> Get(emotions, "thrill", Zero),
                      romance |-> Get(emotions, "romance", Zero),
                      inspiration |-> Get(emotions, "inspiration", Zero),
                      humor |-> Get(emotions, "humor", Zero)]
                 all_recommendations ==
                     recommend_by_emotions(collection, user_emotions, limit, Zero,
                                           emotion_keys)
                 NotReference(rec) == rec.movie["id"] # movie_id
             IN  Take(FilterSeq(all_recommendations, NotReference, 1), limit)

get_similar_movies(collection, movie_id, limit, emotion_keys) ==
    LET ref == FindOne(collection, movie_id)
    IN  IF ref = 0 \/ "emotions" \notin DOMAIN collection[ref] THEN <<>>
        ELSE LET emotions == collection[ref]["emotions"]
                 user_emotions ==
                     [thrill |-> Get(emotions, "thrill", Zero),
                      romance |-> Get(emotions, "romance", Zero),
                      inspiration |-> Get(emotions, "inspiration", Zero),
                      humor |-> Get(emotions, "humor", Zero)]
                 all_recommendations ==
                     recommend_by_emotions(collection, user_emotions, limit + 1, Zero,
                                           emotion_keys)
                 NotReference(rec) == rec.movie["id"] # movie_id
             IN  Take(FilterSeq(all_recommendations, NotReference, 1), limit)

---------------------------------------------------------------------------
(* Mood keywords.  A Python str is modelled as the sequence of its          *)
(* characters, so that lower() and strip() are computed, not assumed.      *)

\* The upper-case letters and their lower-case forms.
LowerOf ==
    ("A" :> "a") @@ ("B" :> "b") @@ ("C" :> "c") @@ ("D" :> "d") @@ ("E" :> "e") @@ ("F" :> "f") @@ ("G" :> "g") @@
    ("H" :> "h") @@ ("I" :> "i") @@ ("J" :> "j") @@ ("K" :> "k") @@ ("L" :> "l") @@ ("M" :> "m") @@ ("N" :> "n") @@
    ("O" :> "o") @@ ("P" :> "p") @@ ("Q" :> "q") @@ ("R" :> "r") @@ ("S" :> "s") @@ ("T" :> "t") @@ ("U" :> "u") @@
    ("V" :> "v") @@ ("W" :> "w") @@ ("X" :> "x") @@ ("Y" :> "y") @@ ("Z" :> "z")

\* str.lower(): every cased character replaced by its lower-case form.
Lower(str) == [i \in 1..Len(str) |-> Get(LowerOf, str[i], str[i])]

\* The characters str.strip() removes from both ends.
Whitespace == {" ", "\t", "\n"}

RECURSIVE LStrip(_)
LStrip(str) ==
    IF Len(str) > 0 /\ Head(str) \in Whitespace THEN LStrip(Tail(str)) ELSE str

RECURSIVE RStrip(_)
RStrip(str) ==
    IF Len(str) > 0 /\ str[Len(str)] \in Whitespace
    THEN RStrip(SubSeq(str, 1, Len(str) - 1)) ELSE str

\* str.strip()
Strip(str) == RStrip(LStrip(str))

mood_mappings ==
    (<<"h", "a", "p", "p", "y">> :> [joy |-> Tenths(10)]) @@
    (<<"j", "o", "y", "f", "u", "l">> :> [joy |-> Tenths(10)]) @@
    (<<"c", "h", "e", "e", "r", "f", "u", "l">> :> [joy |-> Tenths(10)]) @@
    (<<"s", "c", "a", "r", "y">> :> [fear |-> Tenths(10), thrill |-> Tenths(8)]) @@
    (<<"t", "e", "r", "r", "i", "f", "y", "i", "n", "g">> :> [fear |-> Tenths(10)]) @@
    (<<"h", "o", "r", "r", "o", "r">> :> [fear |-> Tenths(10)]) @@
    (<<"t", "h", "r", "i", "l", "l", "i", "n", "g">> :> [thrill |-> Tenths(10), surprise |-> Tenths(6)]) @@
    (<<"e", "x", "c", "i", "t", "i", "n", "g">> :> [thrill |-> Tenths(8), surprise |-> Tenths(7)]) @@
    (<<"s", "u", "s", "p", "e", "n", "s", "e", "f", "u", "l">> :> [fear |-> Tenths(6), surprise |-> Tenths(8)]) @@
    (<<"s", "a", "d">> :> [sadness |-> Tenths(10)]) @@
    (<<"e", "m", "o", "t", "i", "o", "n", "a", "l">> :> [sadness |-> Tenths(7), joy |-> Tenths(5)]) @@
    (<<"t", "e", "a", "r", "j", "e", "r", "k", "e", "r">> :> [sadness |-> Tenths(9)]) @@
    (<<"r", "o", "m", "a", "n", "t", "i", "c">> :> [romance |-> Tenths(10), joy |-> Tenths(6)]) @@
    (<<"l", "o", "v", "e">> :> [romance |-> Tenths(10)]) @@
    (<<"f", "u", "n", "n", "y">> :> [humor |-> Tenths(10), joy |-> Tenths(8)]) @@
    (<<"c", "o", "m", "e", "d", "y">> :> [humor |-> Tenths(10)]) @@
    (<<"h", "i", "l", "a", "r", "i", "o", "u", "s">> :> [humor |-> Tenths(10)]) @@
    (<<"i", "n", "s", "p", "i", "r", "i", "n", "g">> :> [inspiration |-> Tenths(10), joy |-> Tenths(6)]) @@
    (<<"m", "o", "t", "i", "v", "a", "t", "i", "o", "n", "a", "l">> :> [inspiration |-> Tenths(10)]) @@
    (<<"u", "p", "l", "i", "f", "t", "i", "n", "g">> :> [inspiration |-> Tenths(8), joy |-> Tenths(7)]) @@
    (<<"a", "n", "g", "r", "y">> :> [anger |-> Tenths(10)]) @@
    (<<"i", "n", "t", "e", "n", "s", "e">> :> [anger |-> Tenths(7), thrill |-> Tenths(7)]) @@
    (<<"s", "u", "r", "p", "r", "i", "s", "i", "n", "g">> :> [surprise |-> Tenths(10)]) @@
    (<<"m", "i", "n", "d", "b", "l", "o", "w", "i", "n", "g">> :> [surprise |-> Tenths(10), inspiration |-> Tenths(5)])

\* The query used for a mood that is not in mood_mappings.
DefaultMoodEmotions == [joy |-> Tenths(5)]

\* MoodEmotions looking the mood up as it was given, neither lower-cased nor
\* stripped.
MoodEmotionsVerbatim(mood) ==
    Get(mood_mappings, mood, DefaultMoodEmotions)

\* mood_mappings.get(mood.lower().strip(), {"joy": 0.5})
MoodEmotions(mood) ==
    LET mood_lower == Strip(Lower(mood))
    IN  Get(mood_mappings, mood_lower, DefaultMoodEmotions)

recommend_by_mood(collection, mood, limit, min_rating, emotion_keys) ==
    recommend_by_emotions(collection, MoodEmotions(mood), limit, min_rating, emotion_keys)

---------------------------------------------------------------------------
(* Movies by dominant emotion.                                             *)

\* {"emotions.dominant_emotion": dominant_emotion}
HasDominantEmotion(movie, dominant_emotion) ==
    /\ "emotions" \in DOMAIN movie
    /\ "dominant_emotion" \in DOMAIN movie["emotions"]
    /\ movie["emotions"]["dominant_emotion"] = dominant_emotion

\* sort("vote_average", -1): `a` may not come before `b` when it sorts strictly
\* lower; a document without the field sorts below every number.
RatedBelow(a, b) ==
    /\ "vote_average" \in DOMAIN b
    /\ "vote_average" \in DOMAIN a => RatLess(a["vote_average"], b["vote_average"])

\* SortedByRating without the sort: the matches in any order.
SortedInAnyOrder(found) ==
    LET n == Len(found)
        Perms == {p \in [1..n -> 1..n] : \A i, j \in 1..n : i # j => p[i] # p[j]}
    IN  {[i \in 1..n |-> found[p[i]]] : p \in Perms}

\* Every order the store may return the matches in: the store does not say how
\* it orders documents of equal vote_average.
SortedByRating(found) ==
    LET n == Len(found)
        Perms == {p \in [1..n -> 1..n] : \A i, j \in 1..n : i # j => p[i] # p[j]}
    IN  {[i \in 1..n |-> found[p[i]]] : p \in
            {q \in Perms : \A i, j \in 1..n :
                i < j => ~RatedBelow(found[q[i]], found[q[j]])}}

\* The lists get_by_emotion_distribution may return.
get_by_emotion_distribution(collection, dominant_emotion, limit) ==
    LET Match(movie) == HasDominantEmotion(movie, dominant_emotion)
        found == FilterSeq(collection, Match, 1)
    IN  {[i \in 1..MinOf(limit, Len(sorted)) |->
            [movie |-> sorted[i], similarity_score |-> One]] :
         sorted \in SortedByRating(found)}

---------------------------------------------------------------------------
(* GET /movies/{movie_id}/emotions                                         *)

route_genre_emotions ==
    ("Action" :> [thrill |-> Tenths(8), fear |-> Tenths(4), surprise |-> Tenths(6), anger |-> Tenths(3), joy |-> Tenths(5)]) @@
    ("Adventure" :> [joy |-> Tenths(7), thrill |-> Tenths(7), surprise |-> Tenths(6), inspiration |-> Tenths(5)]) @@
    ("Animation" :> [joy |-> Tenths(8), humor |-> Tenths(6), surprise |-> Tenths(4)]) @@
    ("Comedy" :> [joy |-> Tenths(9), humor |-> Tenths(9), surprise |-> Tenths(3)]) @@
    ("Crime" :> [fear |-> Tenths(5), anger |-> Tenths(6), thrill |-> Tenths(6), sadness |-> Tenths(3)]) @@
    ("Documentary" :> [inspiration |-> Tenths(5), surprise |-> Tenths(3), sadness |-> Tenths(2)]) @@
    ("Drama" :> [sadness |-> Tenths(6), joy |-> Tenths(3), anger |-> Tenths(3), inspiration |-> Tenths(4)]) @@
    ("Family" :> [joy |-> Tenths(8), humor |-> Tenths(5), romance |-> Tenths(3)]) @@
    ("Fantasy" :> [joy |-> Tenths(6), surprise |-> Tenths(7), thrill |-> Tenths(5), inspiration |-> Tenths(5)]) @@
    ("History" :> [sadness |-> Tenths(4), inspiration |-> Tenths(5), anger |-> Tenths(3)]) @@
    ("Horror" :> [fear |-> Tenths(9), disgust |-> Tenths(5), surprise |-> Tenths(6), thrill |-> Tenths(8)]) @@
    ("Music" :> [joy |-> Tenths(8), romance |-> Tenths(4), inspiration |-> Tenths(6)]) @@
    ("Mystery" :> [fear |-> Tenths(5), surprise |-> Tenths(7), thrill |-> Tenths(6)]) @@
    ("Romance" :> [romance |-> Tenths(9), joy |-> Tenths(7), sadness |-> Tenths(3)]) @@
    ("Science Fiction" :> [thrill |-> Tenths(6), surprise |-> Tenths(7), fear |-> Tenths(4), inspiration |-> Tenths(5)]) @@
    ("TV Movie" :> [joy |-> Tenths(4), sadness |-> Tenths(3)]) @@
    ("Thriller" :> [fear |-> Tenths(7), thrill |-> Tenths(9), surprise |-> Tenths(6), anger |-> Tenths(4)]) @@
    ("War" :> [anger |-> Tenths(6), sadness |-> Tenths(7), fear |-> Tenths(5)]) @@
    ("Western" :> [thrill |-> Tenths(6), anger |-> Tenths(4), joy |-> Tenths(3)])

\* dominant: the strongest base emotion, "joy" when every one is 0.
RouteDominant(base_emotions) ==
    IF \E k \in DOMAIN base_emotions : base_emotions[k] # Zero
    THEN PyMaxKey(base_emotions, base_emotion_keys)
    ELSE "joy"

\* The flat dict the route returns for combined_emotions.
RouteProfile(combined_emotions) ==
    [k \in CombinedKeys \cup {"dominant_emotion"} |->
        IF k = "dominant_emotion" THEN RouteDominant(BaseEmotionsOf(combined_emotions))
        ELSE combined_emotions[k]]

RouteProfileOf(table, genre_names) ==
    RouteProfile(CombineGenres(table, genre_names, Len(genre_names)))

route_generate_emotions_from_genres(genres) ==
    RouteProfileOf(route_genre_emotions, GenreNames(genres))

\* The response of the route; [status |-> 404] stands for the HTTPException.
get_movie_emotions(collection, movie_id) ==
    LET found == FindOne(collection, movie_id)
        movie == collection[found]
        BaseKeys == {base_emotion_keys[i] : i \in 1..Len(base_emotion_keys)}
    IN  IF found = 0 THEN [status |-> 404]
        ELSE IF "emotions" \in DOMAIN movie /\ Truthy(movie["emotions"])
        THEN [movie_id |-> movie_id,
              title |-> movie["title"],
              emotions |-> [k \in DOMAIN movie["emotions"] \cup BaseKeys |->
                              IF k \in DOMAIN movie["emotions"]
                              THEN movie["emotions"][k] ELSE Zero]]
        ELSE [movie_id |-> movie_id,
              title |-> movie["title"],
              emotions |-> route_generate_emotions_from_genres(Get(movie, "genres", <<>>)),
              source |-> "genre-based"]

---------------------------------------------------------------------------
(* Emotion analysis of a movie's texts (the writer of stored profiles).    *)

\* EmotionScores.to_dict(): the seven base emotions, in field order.
EmotionScoresKeys ==
    <<"joy", "sadness", "fear", "anger", "surprise", "disgust", "neutral">>

\* The scores analyze_text returns for an empty text or a failed classifier call.
NeutralScores ==
    [joy |-> Zero, sadness |-> Zero, fear |-> Zero, anger |-> Zero,
     surprise |-> Zero, disgust |-> Zero, neutral |-> One]

\* Outputs of the external classifier used as inputs of the model.
ClassifierOutputs ==
    {[joy |-> Tenths(7), sadness |-> Zero, fear |-> Tenths(1), anger |-> Zero,
      surprise |-> Tenths(2), disgust |-> Zero, neutral |-> Tenths(1)],
     [joy |-> Tenths(1), sadness |-> Tenths(2), fear |-> Tenths(8), anger |-> Tenths(1),
      surprise |-> Tenths(4), disgust |-> Tenths(2), neutral |-> Zero]}

\* What analyze_text may return for `text`: the classifier's scores, or the
\* neutral scores when the text is empty or the classifier raises.
analyze_text(text) ==
    IF text = "" THEN {NeutralScores} ELSE ClassifierOutputs \cup {NeutralScores}

\* _average_emotions: per emotion, the sum over the list divided by its length.
RECURSIVE SumScores(_, _, _)
SumScores(emotions_list, k, i) ==
    IF i = 0 THEN Zero
    ELSE RatAdd(SumScores(emotions_list, k, i - 1), emotions_list[i][k])

\* _average_emotions dividing each sum by the number of scores that are not 0
\* instead of the length of the list.
average_emotions_of_nonzero(emotions_list) ==
    IF Len(emotions_list) = 0 THEN NeutralScores
    ELSE [k \in DOMAIN NeutralScores |->
            LET nonzero == Cardinality({i \in 1..Len(emotions_list) :
                                           emotions_list[i][k] # Zero})
            IN  IF nonzero = 0 THEN Zero
                ELSE RatDiv(SumScores(emotions_list, k, Len(emotions_list)),
                            Rat(nonzero, 1))]

average_emotions(emotions_list) ==
    IF Len(emotions_list) = 0 THEN NeutralScores
    ELSE [k \in DOMAIN NeutralScores |->
            RatDiv(SumScores(emotions_list, k, Len(emotions_list)),
                   Rat(Len(emotions_list), 1))]

\* from_base_emotions without the halving: thrill and inspiration as plain sums.
from_base_emotions_summed(base_emotions, reviews_count) ==
    [base_emotions |-> base_emotions,
     thrill |-> RatAdd(base_emotions["fear"], base_emotions["surprise"]),
     romance |-> base_emotions["joy"],
     inspiration |-> RatAdd(base_emotions["joy"], base_emotions["surprise"]),
     humor |-> base_emotions["joy"],
     dominant_emotion |-> PyMaxKey(base_emotions, EmotionScoresKeys),
     reviews_analyzed |-> reviews_count]

\* EmotionProfile.from_base_emotions, as the dict analyze_all_movies stores.
from_base_emotions(base_emotions, reviews_count) ==
    [base_emotions |-> base_emotions,
     thrill |-> RatDiv(RatAdd(base_emotions["fear"], base_emotions["surprise"]), Rat(2, 1)),
     romance |-> base_emotions["joy"],
     inspiration |-> RatDiv(RatAdd(base_emotions["joy"], base_emotions["surprise"]), Rat(2, 1)),
     humor |-> base_emotions["joy"],
     dominant_emotion |-> PyMaxKey(base_emotions, EmotionScoresKeys),
     reviews_analyzed |-> reviews_count]

\* analyze_reviews, given the scores analyze_text returned for each review.
analyze_reviews(all_emotions) ==
    IF Len(all_emotions) = 0 THEN from_base_emotions(NeutralScores, 0)
    ELSE from_base_emotions(average_emotions(all_emotions), Len(all_emotions))

\* The emotion_data of the overview fallback of analyze_all_movies.
overview_emotion_data(emotions) ==
    [base_emotions |-> emotions,
     thrill |-> RatDiv(RatAdd(emotions["fear"], emotions["surprise"]), Rat(2, 1)),
     romance |-> emotions["joy"],
     inspiration |-> RatDiv(RatAdd(emotions["joy"], emotions["surprise"]), Rat(2, 1)),
     humor |-> emotions["joy"],
     dominant_emotion |-> PyMaxKey(emotions, EmotionScoresKeys),
     reviews_analyzed |-> 0,
     source |-> "overview"]

\* review_texts: the non-empty "content" of the movie's stored reviews.
ReviewTexts(movie) ==
    LET results == Get(Get(movie, "reviews", EmptyDict), "results", <<>>)
        HasContent(r) == Get(r, "content", "") # ""
        kept == FilterSeq(results, HasContent, 1)
    IN  [i \in 1..Len(kept) |-> kept[i]["content"]]

\* {"$set": {field: value}} on one document.
SetField(doc, field, value) ==
    [f \in DOMAIN doc \cup {field} |-> IF f = field THEN value ELSE doc[f]]

---------------------------------------------------------------------------
(* Import of movies with a genre-averaged flat profile.                    *)

EMOTION_PROFILES ==
    ("Action" :> [thrill |-> Hundredths(85), joy |-> Hundredths(40), fear |-> Hundredths(30), sadness |-> Hundredths(10), surprise |-> Hundredths(60), humor |-> Hundredths(20)]) @@
    ("Adventure" :> [thrill |-> Hundredths(70), joy |-> Hundredths(65), fear |-> Hundredths(25), sadness |-> Hundredths(15), surprise |-> Hundredths(55), humor |-> Hundredths(30)]) @@
    ("Animation" :> [joy |-> Hundredths(80), humor |-> Hundredths(70), sadness |-> Hundredths(30), thrill |-> Hundredths(40), surprise |-> Hundredths(50), fear |-> Hundredths(10)]) @@
    ("Comedy" :> [humor |-> Hundredths(90), joy |-> Hundredths(85), sadness |-> Hundredths(10), thrill |-> Hundredths(20), surprise |-> Hundredths(40), fear |-> Hundredths(5)]) @@
    ("Crime" :> [thrill |-> Hundredths(80), fear |-> Hundredths(50), sadness |-> Hundredths(45), joy |-> Hundredths(15), surprise |-> Hundredths(60), humor |-> Hundredths(10)]) @@
    ("Documentary" :> [sadness |-> Hundredths(40), joy |-> Hundredths(30), surprise |-> Hundredths(50), thrill |-> Hundredths(35), fear |-> Hundredths(20), humor |-> Hundredths(15)]) @@
    ("Drama" :> [sadness |-> Hundredths(70), joy |-> Hundredths(35), thrill |-> Hundredths(30), fear |-> Hundredths(25), surprise |-> Hundredths(35), humor |-> Hundredths(10)]) @@
    ("Family" :> [joy |-> Hundredths(85), humor |-> Hundredths(70), sadness |-> Hundredths(25), thrill |-> Hundredths(30), surprise |-> Hundredths(45), fear |-> Hundredths(10)]) @@
    ("Fantasy" :> [thrill |-> Hundredths(60), joy |-> Hundredths(55), surprise |-> Hundredths(70), fear |-> Hundredths(35), sadness |-> Hundredths(25), humor |-> Hundredths(30)]) @@
    ("History" :> [sadness |-> Hundredths(55), thrill |-> Hundredths(45), joy |-> Hundredths(25), fear |-> Hundredths(35), surprise |-> Hundredths(40), humor |-> Hundredths(10)]) @@
    ("Horror" :> [fear |-> Hundredths(95), thrill |-> Hundredths(85), surprise |-> Hundredths(70), sadness |-> Hundredths(40), joy |-> Hundredths(5), humor |-> Hundredths(10)]) @@
    ("Music" :> [joy |-> Hundredths(80), sadness |-> Hundredths(40), thrill |-> Hundredths(35), humor |-> Hundredths(45), surprise |-> Hundredths(30), fear |-> Hundredths(5)]) @@
    ("Mystery" :> [thrill |-> Hundredths(80), surprise |-> Hundredths(85), fear |-> Hundredths(55), sadness |-> Hundredths(35), joy |-> Hundredths(20), humor |-> Hundredths(10)]) @@
    ("Romance" :> [joy |-> Hundredths(75), sadness |-> Hundredths(55), thrill |-> Hundredths(25), humor |-> Hundredths(40), surprise |-> Hundredths(35), fear |-> Hundredths(10)]) @@
    ("Science Fiction" :> [thrill |-> Hundredths(75), surprise |-> Hundredths(80), fear |-> Hundredths(45), joy |-> Hundredths(40), sadness |-> Hundredths(30), humor |-> Hundredths(20)]) @@
    ("TV Movie" :> [joy |-> Hundredths(50), sadness |-> Hundredths(40), thrill |-> Hundredths(30), humor |-> Hundredths(45), surprise |-> Hundredths(35), fear |-> Hundredths(15)]) @@
    ("Thriller" :> [thrill |-> Hundredths(95), fear |-> Hundredths(75), surprise |-> Hundredths(80), sadness |-> Hundredths(40), joy |-> Hundredths(10), humor |-> Hundredths(5)]) @@
    ("War" :> [sadness |-> Hundredths(80), fear |-> Hundredths(70), thrill |-> Hundredths(75), joy |-> Hundredths(10), surprise |-> Hundredths(45), humor |-> Hundredths(5)]) @@
    ("Western" :> [thrill |-> Hundredths(70), joy |-> Hundredths(35), sadness |-> Hundredths(40), fear |-> Hundredths(30), surprise |-> Hundredths(45), humor |-> Hundredths(25)])

\* The keys of the flat profile, in the order the dict is built.
ImportKeys == <<"thrill", "joy", "sadness", "fear", "surprise", "humor">>

\* round(x, 2) for x >= 0.  A value exactly half way between two hundredths
\* goes where its binary representation falls: up when `up`, else down.
RoundHundredths(h, up) ==
    IF 2 * (h.n % h.d) < h.d THEN Hundredths(h.n \div h.d)
    ELSE IF 2 * (h.n % h.d) > h.d THEN Hundredths((h.n \div h.d) + 1)
    ELSE IF up THEN Hundredths((h.n \div h.d) + 1) ELSE Hundredths(h.n \div h.d)

Round2(x, up) == RoundHundredths(RatMul(x, Rat(100, 1)), up)

\* The loop over genres: the sum of `emotion` over the genres found in `table`.
RECURSIVE SumProfiles(_, _, _, _)
SumProfiles(table, genres, emotion, i) ==
    IF i = 0 THEN Zero
    ELSE IF Get(genres[i], "name", "") \in DOMAIN table
         THEN RatAdd(SumProfiles(table, genres, emotion, i - 1),
                     table[Get(genres[i], "name", "")][emotion])
         ELSE SumProfiles(table, genres, emotion, i - 1)

\* count: how many of the genres are in `table`.
ProfileCount(table, genres) ==
    Cardinality({i \in 1..Len(genres) : Get(genres[i], "name", "") \in DOMAIN table})

\* emotions: per key the rounded average over the `count` genres found.
AveragedEmotions(table, genres, count, ups) ==
    [e \in {ImportKeys[i] : i \in 1..Len(ImportKeys)} |->
        IF count > 0
        THEN Round2(RatDiv(SumProfiles(table, genres, e, Len(genres)), Rat(count, 1)),
                    e \in ups)
        ELSE Zero]

\* The dict returned for `emotions`: its entries and the dominant one.
WithDominant(emotions) ==
    [k \in DOMAIN emotions \cup {"dominant_emotion"} |->
        IF k = "dominant_emotion" THEN PyMaxKey(emotions, ImportKeys) ELSE emotions[k]]

\* generate_emotion_profile; `ups` are the emotions whose half-way average
\* rounds up.
ProfileFrom(table, genres, ups) ==
    IF Len(genres) = 0
    THEN [e \in {ImportKeys[i] : i \in 1..Len(ImportKeys)} |-> Tenths(5)]
    ELSE WithDominant(AveragedEmotions(table, genres, ProfileCount(table, genres), ups))

generate_emotion_profile(genres, ups) == ProfileFrom(EMOTION_PROFILES, genres, ups)

---------------------------------------------------------------------------
(* Bounds and inputs.                                                      *)

\* The number of movies of the TMDB popular list the scripts fetch.
MaxMovies == 3

\* The largest `limit` a caller passes (callers validate limit >= 1).
MaxLimit == 2

\* The most dimensions of a query handed to the scorer alone.
MaxQueryDims == 2

\* What TMDB returns for the movie_id-th movie of its popular list.
TmdbDetails(movie_id) ==
    CASE (movie_id - 1) % 4 = 0 ->
            [id |-> movie_id, title |-> "t", overview |-> "o",
             genres |-> <<[name |-> "Horror"], [name |-> "Comedy"]>>,
             vote_average |-> Tenths(80),
             reviews |-> [results |-> <<[content |-> "r"], [content |-> "r"]>>]]
      [] (movie_id - 1) % 4 = 1 ->
            [id |-> movie_id, title |-> "t", overview |-> "o",
             genres |-> <<[name |-> "Comedy"]>>,
             reviews |-> [results |-> <<>>]]
      [] (movie_id - 1) % 4 = 2 ->
            [id |-> movie_id, title |-> "t", overview |-> "",
             genres |-> <<[name |-> "Unknown"]>>,
             vote_average |-> Tenths(55),
             reviews |-> [results |-> <<[content |-> "r"]>>]]
      [] OTHER ->
            [id |-> movie_id, title |-> "t", overview |-> "",
             genres |-> <<>>,
             vote_average |-> Tenths(70),
             reviews |-> [results |-> <<[content |-> ""]>>]]

\* The queries callers pass to recommend_by_emotions.
Queries ==
    {[k \in {} |-> Zero],
     [joy |-> One],
     [joy |-> Zero],
     [fear |-> One, thrill |-> Tenths(8)],
     [joy |-> Tenths(8), thrill |-> Tenths(6)],
     [joy |-> One, fear |-> Tenths(-5)]}

MinRatings == {Zero, Tenths(60)}

Moods == {<<"s", "c", "a", "r", "y">>,
          <<"S", "C", "A", "R", "Y">>,
          <<" ", "R", "o", "m", "a", "n", "t", "i", "c", "\n">>,
          <<"u", "n", "k", "n", "o", "w", "n", "-", "m", "o", "o", "d", "-", "x", "y", "z">>}

DominantEmotions == {"joy", "neutral", "humor"}

---------------------------------------------------------------------------
(* Calls are served one at a time: a call is taken when no call is being   *)
(* served, and its return value is held until the call returns.            *)

Idle == op["name"] = "idle"

\* The call returns to its caller.
Return ==
    /\ ~Idle
    /\ graph' = graph
    /\ UNCHANGED <<accounts, requests>>
    /\ op' = [name |-> "idle"]
    /\ result' = <<>>
    /\ movies' = movies

---------------------------------------------------------------------------
(* Writes to the movies collection.                                        *)

\* populate_database.py: the collection is dropped and the details of the
\* first n popular movies are inserted as TMDB returned them.
populate_mongodb(n) == [i \in 1..n |-> TmdbDetails(i)]

PopulateMongodb ==
    \E n \in 1..MaxMovies :
        /\ Idle
        /\ graph' = graph
        /\ UNCHANGED <<accounts, requests>>
        /\ movies' = populate_mongodb(n)
        /\ op' = [name |-> "populate_mongodb"]
        /\ result' = <<>>

\* The movie_doc import_movies.py inserts for `details`.
movie_doc(details, ups) ==
    [id |-> details["id"],
     title |-> Get(details, "title", "Unknown"),
     overview |-> Get(details, "overview", ""),
     genres |-> Get(details, "genres", <<>>),
     vote_average |-> Get(details, "vote_average", Zero),
     emotions |-> generate_emotion_profile(Get(details, "genres", <<>>), ups)]

\* import_movies.py, one step of its loop: the next popular movie that is not
\* in the collection yet is inserted with its genre-averaged profile.
ImportMovie ==
    /\ Idle
    /\ graph' = graph
    /\ UNCHANGED <<accounts, requests>>
    /\ Len(movies) < MaxMovies
    /\ \E ups \in SUBSET {"thrill"} :
          movies' = Append(movies, movie_doc(TmdbDetails(Len(movies) + 1), ups))
    /\ op' = [name |-> "import_movies"]
    /\ result' = <<>>

\* analyze_all_movies, one step of its loop: the movie's reviews, or else its
\* overview, are analysed and the profile is stored; a movie with neither is
\* skipped.
AnalyzeMovie ==
    \E i \in 1..Len(movies) :
        LET movie == movies[i]
            review_texts == ReviewTexts(movie)
            overview == Get(movie, "overview", "")
            target == FindOne(movies, movie["id"])
        IN  /\ Idle
            /\ graph' = graph
            /\ UNCHANGED <<accounts, requests>>
            /\ \/ /\ Len(review_texts) > 0
                  /\ \E all_emotions \in [1..Len(review_texts) -> ClassifierOutputs \cup {NeutralScores}] :
                        /\ \A j \in 1..Len(review_texts) :
                              all_emotions[j] \in analyze_text(review_texts[j])
                        /\ movies' = [movies EXCEPT ![target] =
                                        SetField(@, "emotions", analyze_reviews(all_emotions))]
                        /\ op' = [name |-> "analyze_all_movies", movie_id |-> movie["id"],
                                  all_emotions |-> all_emotions]
               \/ /\ Len(review_texts) = 0
                  /\ overview # ""
                  /\ \E emotions \in analyze_text(overview) :
                        /\ movies' = [movies EXCEPT ![target] =
                                        SetField(@, "emotions", overview_emotion_data(emotions))]
                        /\ op' = [name |-> "analyze_all_movies", movie_id |-> movie["id"],
                                  emotions |-> emotions]
            /\ result' = <<>>

---------------------------------------------------------------------------
(* Reads of the movies collection.                                         *)

RecommendByEmotions ==
    \E user_emotions \in Queries, limit \in 1..MaxLimit, min_rating \in MinRatings :
        /\ Idle
        /\ graph' = graph
        /\ UNCHANGED <<accounts, requests>>
        /\ op' = [name |-> "recommend_by_emotions", user_emotions |-> user_emotions,
                  limit |-> limit, min_rating |-> min_rating]
        /\ \E emotion_keys \in KeyOrders(DOMAIN user_emotions) :
              result' = recommend_by_emotions(movies, user_emotions, limit, min_rating,
                                              emotion_keys)
        /\ movies' = movies

RecommendByMood ==
    \E mood \in Moods, limit \in 1..MaxLimit, min_rating \in MinRatings :
        /\ Idle
        /\ graph' = graph
        /\ UNCHANGED <<accounts, requests>>
        /\ op' = [name |-> "recommend_by_mood", mood |-> mood,
                  limit |-> limit, min_rating |-> min_rating]
        /\ \E emotion_keys \in KeyOrders(DOMAIN MoodEmotions(mood)) :
              result' = recommend_by_mood(movies, mood, limit, min_rating, emotion_keys)
        /\ movies' = movies

GetSimilarMovies ==
    \E movie_id \in 1..(MaxMovies + 1), limit \in 1..MaxLimit :
        /\ Idle
        /\ graph' = graph
        /\ UNCHANGED <<accounts, requests>>
        /\ op' = [name |-> "get_similar_movies", movie_id |-> movie_id, limit |-> limit]
        /\ \E emotion_keys \in KeyOrders(CineFeelsEmotions) :
              result' = get_similar_movies(movies, movie_id, limit, emotion_keys)
        /\ movies' = movies

GetByEmotionDistribution ==
    \E dominant_emotion \in DominantEmotions, limit \in 1..MaxLimit :
        /\ Idle
        /\ graph' = graph
        /\ UNCHANGED <<accounts, requests>>
        /\ op' = [name |-> "get_by_emotion_distribution",
                  dominant_emotion |-> dominant_emotion, limit |-> limit]
        /\ result' \in get_by_emotion_distribution(movies, dominant_emotion, limit)
        /\ movies' = movies

\* GetMovieEmotions saving the profile it generated from the genres.
GetMovieEmotionsPersisting ==
    \E movie_id \in 1..(MaxMovies + 1) :
        LET found == FindOne(movies, movie_id)
            response == get_movie_emotions(movies, movie_id)
        IN  /\ Idle
            /\ graph' = graph
            /\ UNCHANGED <<accounts, requests>>
            /\ op' = [name |-> "get_movie_emotions", movie_id |-> movie_id]
            /\ result' = response
            /\ movies' = IF found # 0 /\ "source" \in DOMAIN response
                         THEN [movies EXCEPT ![found] =
                                 SetField(@, "emotions", response["emotions"])]
                         ELSE movies


GetMovieEmotions ==
    \E movie_id \in 1..(MaxMovies + 1) :
        /\ Idle
        /\ graph' = graph
        /\ UNCHANGED <<accounts, requests>>
        /\ op' = [name |-> "get_movie_emotions", movie_id |-> movie_id]
        /\ result' = get_movie_emotions(movies, movie_id)
        /\ movies' = movies

---------------------------------------------------------------------------
(* The store and its operations.                                           *)

Init ==
    /\ movies = <<>>
    /\ graph = EmptyGraph
    /\ accounts = EmptyAccounts
    /\ requests = NoRequests
    /\ op = [name |-> "idle"]
    /\ result = <<>>

Next ==
    \/ PopulateMongodb
    \/ ImportMovie
    \/ AnalyzeMovie
    \/ RecommendByEmotions
    \/ RecommendByMood
    \/ GetSimilarMovies
    \/ GetByEmotionDistribution
    \/ GetMovieEmotions
    \/ Return

Spec == Init /\ [][Next]_vars

---------------------------------------------------------------------------
(* The scorer and the recommendation reads over arbitrary collections:     *)
(* documents of every shape the scorer accepts, whoever wrote them.        *)

SimProfiles ==
    <<from_base_emotions(
        [joy |-> Tenths(7), sadness |-> Zero, fear |-> Tenths(1), anger |-> Zero,
         surprise |-> Tenths(2), disgust |-> Zero, neutral |-> Tenths(1)], 1),
      [base_emotions |-> [joy |-> Tenths(7), fear |-> Tenths(1)],
       joy |-> Tenths(2), fear |-> Tenths(9), thrill |-> Tenths(4)],
      [thrill |-> Hundredths(85), joy |-> Hundredths(5), sadness |-> Tenths(4),
       fear |-> Hundredths(95), surprise |-> Tenths(7), humor |-> Tenths(1),
       dominant_emotion |-> "fear"],
      [base_emotions |-> EmptyDict, joy |-> Tenths(4), thrill |-> Tenths(6)],
      [joy |-> Tenths(15), thrill |-> Tenths(20)],
      EmptyDict>>

MoviesWith(profiles) ==
    <<[id |-> 1, title |-> "t", genres |-> <<[name |-> "Drama"]>>,
       vote_average |-> Tenths(80), emotions |-> profiles[1]],
      [id |-> 2, title |-> "t", genres |-> <<[name |-> "Horror"]>>,
       vote_average |-> Tenths(55), emotions |-> profiles[2]],
      [id |-> 3, title |-> "t", genres |-> <<[name |-> "Horror"]>>,
       emotions |-> profiles[3]],
      [id |-> 4, title |-> "t", genres |-> <<>>,
       vote_average |-> Tenths(70), emotions |-> profiles[4]],
      [id |-> 5, title |-> "t", genres |-> <<>>,
       vote_average |-> Tenths(60), emotions |-> profiles[5]],
      [id |-> 6, title |-> "t", vote_average |-> Tenths(75),
       genres |-> <<[name |-> "Horror"], [name |-> "Comedy"]>>],
      [id |-> 7, title |-> "t", vote_average |-> Tenths(65),
       genres |-> <<[name |-> "Comedy"]>>, emotions |-> profiles[6]],
      [id |-> 8, title |-> "t", vote_average |-> Tenths(65),
       genres |-> <<[name |-> "Unknown"]>>],
      [id |-> 9, title |-> "t"],
      [id |-> 10, title |-> "t", genres |-> <<>>, emotions |-> profiles[6]]>>

SimMovies == MoviesWith(SimProfiles)

CollectionsOf(docs) ==
    {<<docs[i]>> : i \in 1..Len(docs)} \cup
    {<<docs[1], docs[3], docs[5]>>,
     <<docs[7], docs[2]>>,
     <<docs[6], docs[4], docs[10]>>}

SimCollections == CollectionsOf(SimMovies)

SimQueryKeys == {"joy", "fear", "neutral", "thrill", "nostalgia"}

SimWeights == {Tenths(-6), Zero, Tenths(6), One}

SimQueries ==
    UNION {[D -> SimWeights] :
           D \in {S \in SUBSET SimQueryKeys : Cardinality(S) <= MaxQueryDims}}

SimFactors == {Rat(1, 2), Rat(3, 1)}

\* k * q, each product a float multiplication by the caller.
ScaleQuery(user_emotions, k) ==
    [e \in DOMAIN user_emotions |-> FlMul[k, Fl[user_emotions[e]]]]

\* _calculate_similarity on one movie, for a query and for the query scaled.
ScoreCandidate ==
    \E user_emotions \in SimQueries, i \in 1..Len(movies), k \in SimFactors :
        /\ Idle
        /\ graph' = graph
        /\ UNCHANGED <<accounts, requests>>
        /\ op' = [name |-> "calculate_similarity", user_emotions |-> user_emotions,
                  movie |-> movies[i], k |-> k]
        /\ \E emotion_keys \in KeyOrders(DOMAIN user_emotions) :
              result' =
                [similarity |->
                    calculate_similarity(user_emotions, movies[i], emotion_keys),
                 scaled |->
                    calculate_similarity(ScaleQuery(user_emotions, k), movies[i],
                                         emotion_keys)]
        /\ movies' = movies

SimInit ==
    /\ movies \in SimCollections
    /\ graph = EmptyGraph
    /\ accounts = EmptyAccounts
    /\ requests = NoRequests
    /\ op = [name |-> "idle"]
    /\ result = <<>>

SimNext ==
    \/ ScoreCandidate
    \/ RecommendByEmotions
    \/ RecommendByMood
    \/ GetSimilarMovies
    \/ Return

SpecSim == SimInit /\ [][SimNext]_vars

---------------------------------------------------------------------------
(* The profile builders on their own: the emotion analyser over any list   *)
(* of reviews (the empty one included) and the two genre fallbacks over    *)
(* any list of genres.                                                     *)

\* The most reviews handed to analyze_reviews in one call.
MaxReviews == 3

\* The most genres of one movie.
MaxGenres == 3

\* Every sequence over S of at most n elements.
SeqsUpTo(S, n) == UNION {[1..k -> S] : k \in 0..n}

\* The review texts callers pass: an empty text and a text with content.
ReviewInputs == {"", "r"}

\* The genre names movies carry: four of the table and one that is not in it.
GenreInputs == {"Horror", "Comedy", "Romance", "Thriller", "Unknown"}

\* genres as TMDB stores them: one dict with a "name" per genre.
GenreDicts(names) == [i \in 1..Len(names) |-> [name |-> names[i]]]

\* EmotionService.analyze_reviews(reviews): analyze_text on each review, then
\* the aggregation.
AnalyzeReviews ==
    \E reviews \in SeqsUpTo(ReviewInputs, MaxReviews) :
        \E all_emotions \in [1..Len(reviews) -> ClassifierOutputs \cup {NeutralScores}] :
            /\ Idle
            /\ graph' = graph
            /\ UNCHANGED <<accounts, requests>>
            /\ \A j \in 1..Len(reviews) : all_emotions[j] \in analyze_text(reviews[j])
            /\ op' = [name |-> "analyze_reviews", reviews |-> reviews,
                      all_emotions |-> all_emotions]
            /\ result' = analyze_reviews(all_emotions)
            /\ movies' = movies

\* The overview fallback of analyze_all_movies on its own: analyze_movie_overview
\* on a non-empty overview, then the emotion_data built from its scores.
AnalyzeOverview ==
    \E emotions \in analyze_text("o") :
        /\ Idle
        /\ graph' = graph
        /\ UNCHANGED <<accounts, requests>>
        /\ op' = [name |-> "analyze_movie_overview", overview |-> "o",
                  emotions |-> emotions]
        /\ result' = overview_emotion_data(emotions)
        /\ movies' = movies

\* RecommendationService._generate_emotions_from_genres(movie)
GenerateEmotionsFromGenres ==
    \E names \in SeqsUpTo(GenreInputs, MaxGenres) :
        /\ Idle
        /\ graph' = graph
        /\ UNCHANGED <<accounts, requests>>
        /\ op' = [name |-> "generate_emotions_from_genres", genres |-> names]
        /\ result' = generate_emotions_from_genres([genres |-> GenreDicts(names)])
        /\ movies' = movies

\* _generate_emotions_from_genres(genres) of the movies route
RouteGenerateEmotionsFromGenres ==
    \E names \in SeqsUpTo(GenreInputs, MaxGenres) :
        /\ Idle
        /\ graph' = graph
        /\ UNCHANGED <<accounts, requests>>
        /\ op' = [name |-> "route_generate_emotions_from_genres", genres |-> names]
        /\ result' = route_generate_emotions_from_genres(GenreDicts(names))
        /\ movies' = movies

PureNext ==
    \/ AnalyzeReviews
    \/ AnalyzeOverview
    \/ GenerateEmotionsFromGenres
    \/ RouteGenerateEmotionsFromGenres
    \/ Return

SpecPure == Init /\ [][PureNext]_vars

---------------------------------------------------------------------------

(* The graph store: users, their interactions with movies, and the         *)
(* collaborative recommendations read from them.                           *)

\* The most users that register.
MaxUsers == 3

\* The most movies users interact with.
MaxGraphMovies == 2

\* The most WATCHED relationships in the graph.
MaxEdges == 4

GraphMovieIds == 1..MaxGraphMovies

\* The (liked, rating) pairs callers pass to add_movie_interaction; a rating
\* of None leaves the relationship without a rating property.
Interactions == {[liked |-> TRUE, rating |-> Tenths(45)], [liked |-> FALSE]}

\* (user)-[:WATCHED]->(movie)
HasWatched(g, user_id, movie_id) == <<user_id, movie_id>> \in DOMAIN g.watched

\* (user)-[:WATCHED {liked: true}]->(movie)
HasLiked(g, user_id, movie_id) ==
    /\ HasWatched(g, user_id, movie_id)
    /\ g.watched[<<user_id, movie_id>>].liked

LikedBy(g, user_id) == {m \in GraphMovieIds : HasLiked(g, user_id, m)}

\* The CREATE of create_user: a new User node; its user_id is made from the
\* clock, which gives each user a new one.
create_user(g) == [g EXCEPT !.users = @ \cup {Cardinality(g.users) + 1}]

\* add_movie_interaction with `ON CREATE SET`: a relationship that exists
\* keeps the properties it has.
add_movie_interaction_on_create(g, user_id, movie_id, properties) ==
    IF user_id \in g.users
    THEN [g EXCEPT !.watched = @ @@ (<<user_id, movie_id>> :> properties)]
    ELSE g

\* The statement of add_movie_interaction: without a User node of that
\* user_id the MATCH gives no row and nothing is written; otherwise the Movie
\* node and the relationship are merged and the properties set.
add_movie_interaction(g, user_id, movie_id, properties) ==
    IF user_id \in g.users
    THEN [g EXCEPT !.watched = (<<user_id, movie_id>> :> properties) @@ @]
    ELSE g

\* count(m) of the first part of the statement, for one `other`.
CommonLikes(g, user_id, other) == Cardinality(LikedBy(g, user_id) \cap LikedBy(g, other))

\* The rows of the first WITH: the other users liking a movie the user likes.
SimilarUsers(g, user_id) ==
    IF user_id \notin g.users THEN {}
    ELSE {other \in g.users \ {user_id} : CommonLikes(g, user_id, other) > 0}

\* LIMIT 5 of the first part.
NeighbourLimit == 5

\* LIMIT 5 without the ORDER BY: any rows of the right number are kept.
TopNeighboursUnordered(g, user_id, similar) ==
    {kept \in SUBSET similar :
        Cardinality(kept) = MinOf(NeighbourLimit, Cardinality(similar))}

\* ORDER BY common_likes DESC LIMIT 5: every choice of rows the engine may
\* keep (it orders equal counts as it likes).
TopNeighbours(g, user_id, similar) ==
    {kept \in SUBSET similar :
        /\ Cardinality(kept) = MinOf(NeighbourLimit, Cardinality(similar))
        /\ \A o \in kept, p \in similar \ kept :
              CommonLikes(g, user_id, p) <= CommonLikes(g, user_id, o)}

\* SomeNodeWatched never holding: the WHERE clause lets every movie through.
NoNodeWatched(g, movie_id) == FALSE

\* (u)-[:WATCHED]->(rec) after `WITH other, count(m)`, which leaves only
\* `other` and `common_likes` in scope: `u` is a variable the pattern
\* introduces, and the pattern holds when any node has watched the movie.
SomeNodeWatched(g, movie_id) == \E n \in g.users : HasWatched(g, n, movie_id)

\* count(other) per rec.movie_id over the rows of the second MATCH.
RecommendationScores(g, kept) ==
    LET recs == {m \in GraphMovieIds :
                    /\ \E o \in kept : HasLiked(g, o, m)
                    /\ ~SomeNodeWatched(g, m)}
    IN  [m \in recs |-> Cardinality({o \in kept : HasLiked(g, o, m)})]

\* ORDER BY recommendation_score DESC: every order of the rows the engine may
\* return.
RankedByScore(scores) ==
    LET n == Cardinality(DOMAIN scores)
    IN  {ranked \in [1..n -> DOMAIN scores] :
            /\ \A i, j \in 1..n : i # j => ranked[i] # ranked[j]
            /\ \A i, j \in 1..n : i < j => scores[ranked[i]] >= scores[ranked[j]]}

\* What get_recommended_movies_for_user may do: an engine that rejects the
\* variable `u` that is not in scope fails the statement and the call raises;
\* an engine that accepts it returns the rows of the statement as read above.
get_recommended_movies_for_user(g, user_id, limit) ==
    {[raised |-> TRUE, value |-> <<>>]} \cup
    {[raised |-> FALSE, value |-> Take(ranked, limit)] :
        ranked \in UNION {RankedByScore(RecommendationScores(g, kept)) :
                            kept \in TopNeighbours(g, user_id, SimilarUsers(g, user_id))}}

CreateUser ==
    /\ Idle
    /\ Cardinality(graph.users) < MaxUsers
    /\ graph' = create_user(graph)
    /\ UNCHANGED <<accounts, requests>>
    /\ op' = [name |-> "create_user"]
    /\ result' = [user_id |-> Cardinality(graph.users) + 1]
    /\ movies' = movies

AddMovieInteraction ==
    \E user_id \in 1..(MaxUsers + 1), movie_id \in GraphMovieIds,
       properties \in Interactions :
        /\ Idle
        /\ \/ HasWatched(graph, user_id, movie_id)
           \/ Cardinality(DOMAIN graph.watched) < MaxEdges
        /\ graph' = add_movie_interaction(graph, user_id, movie_id, properties)
        /\ UNCHANGED <<accounts, requests>>
        /\ op' = [name |-> "add_movie_interaction", user_id |-> user_id,
                  movie_id |-> movie_id, properties |-> properties]
        /\ result' = TRUE
        /\ movies' = movies

GetRecommendedMoviesForUser ==
    \E user_id \in 1..(MaxUsers + 1), limit \in 1..MaxLimit :
        /\ Idle
        /\ op' = [name |-> "get_recommended_movies_for_user", user_id |-> user_id,
                  limit |-> limit]
        /\ result' \in get_recommended_movies_for_user(graph, user_id, limit)
        /\ movies' = movies
        /\ graph' = graph
        /\ UNCHANGED <<accounts, requests>>

\* get_user_liked_movies: the movie_id of the rows, in every order the engine
\* may return them.
get_user_liked_movies(g, user_id) ==
    {liked \in [1..Cardinality(LikedBy(g, user_id)) -> LikedBy(g, user_id)] :
        \A i, j \in DOMAIN liked : i # j => liked[i] # liked[j]}

GetUserLikedMovies ==
    \E user_id \in 1..(MaxUsers + 1) :
        /\ Idle
        /\ op' = [name |-> "get_user_liked_movies", user_id |-> user_id]
        /\ result' \in get_user_liked_movies(graph, user_id)
        /\ UNCHANGED <<movies, graph, accounts, requests>>

GraphNext ==
    \/ CreateUser
    \/ AddMovieInteraction
    \/ GetRecommendedMoviesForUser
    \/ GetUserLikedMovies
    \/ Return

SpecGraph == Init /\ [][GraphNext]_vars

---------------------------------------------------------------------------

(* Graphs with more users than the statement keeps neighbours: user 1      *)
(* likes every movie and each other user likes the first few of them.      *)

\* The users next to user 1.
MaxOthers == 6

\* The graph in which user `other` likes the movies 1..likes[other].
CrowdGraph(likes) ==
    [users |-> 1..(MaxOthers + 1),
     watched |->
        [pair \in {<<1, m>> : m \in GraphMovieIds} \cup
                  {<<other, m>> : other \in 2..(MaxOthers + 1), m \in GraphMovieIds}
            |-> [liked |-> pair[1] = 1 \/ pair[2] <= likes[pair[1]],
                 rating |-> Tenths(45)]]]

\* The graphs are drawn up to the order of the other users: a later user
\* likes at least as many movies as an earlier one.
CrowdGraphs ==
    {CrowdGraph(likes) :
        likes \in {l \in [2..(MaxOthers + 1) -> 0..MaxGraphMovies] :
                     \A o \in 2..MaxOthers : l[o] <= l[o + 1]}}

CrowdInit ==
    /\ movies = <<>>
    /\ graph \in CrowdGraphs
    /\ accounts = EmptyAccounts
    /\ requests = NoRequests
    /\ op = [name |-> "idle"]
    /\ result = <<>>

CrowdNext ==
    \/ GetRecommendedMoviesForUser
    \/ Return

SpecCrowd == CrowdInit /\ [][CrowdNext]_vars

---------------------------------------------------------------------------

---------------------------------------------------------------------------
(* Accounts: the User nodes found by email, their analysis history and     *)
(* their emotion profile (UserService, routes auth and user_data).         *)

\* At most this many User nodes are created.
MaxAccounts == 2

\* At most this many Analysis nodes are created.
MaxAnalyses == 3

Emails == {"ann@x.org", "bob@x.org"}

\* emotion_keys of _update_aggregate_profile.
profile_emotion_keys == {"joy", "sadness", "fear", "anger", "surprise", "disgust"}

\* The emotions a client posts with an analysis: any dict. Two give every
\* key, one gives a single key.
AnalysisInputs ==
    {[k \in profile_emotion_keys |-> IF k = "joy" THEN One ELSE Zero],
     [k \in profile_emotion_keys |-> IF k = "fear" THEN Tenths(6) ELSE Tenths(2)],
     [k \in {"joy"} |-> Tenths(4)]}

\* json.dumps of a dict with string keys: the members of the JSON object.
json_dumps(emotions) == {<<k, emotions[k]>> : k \in DOMAIN emotions}

\* json.loads of such a text: the dict with those members.
json_loads(emotions_json) ==
    [k \in {member[1] : member \in emotions_json} |->
        (CHOOSE member \in emotions_json : member[1] = k)[2]]

\* MATCH (u:User {email: $email}): the nodes that carry the email.
UsersByEmail(a, email) == {u \in 1..Len(a.users) : a.users[u]["email"] = email}

\* get_user_by_email: whether result.single() gives a record.
get_user_by_email(a, email) == UsersByEmail(a, email) # {}

\* The CREATE of create_user: one more User node, whatever nodes exist.
create_user_by_email(a, email) ==
    [a EXCEPT !.users = Append(@, [email |-> email])]

\* The route register, served without interruption: the email is looked up
\* and, when no node carries it, the node is created.
register(a, email) ==
    IF get_user_by_email(a, email)
    THEN [accounts |-> a, raised |-> TRUE, detail |-> "Email already registered"]
    ELSE [accounts |-> create_user_by_email(a, email), raised |-> FALSE,
          detail |-> ""]

\* The first statement of save_analysis: an Analysis node and a PERFORMED
\* relationship for every row of the MATCH.
RECURSIVE create_analyses(_, _, _)
create_analyses(a, matched, emotions_json) ==
    IF matched = {} THEN a
    ELSE create_analyses(
            [a EXCEPT !.performed =
                Append(@, [user |-> CHOOSE u \in matched : \A v \in matched : u <= v,
                           emotions_json |-> emotions_json])],
            matched \ {CHOOSE u \in matched : \A v \in matched : u <= v},
            emotions_json)

\* The read of _update_aggregate_profile: the emotions of every Analysis
\* node hanging on a node with the email (the text of json.dumps is never
\* empty, and parses).
RECURSIVE all_emotions_of(_, _, _)
all_emotions_of(a, email, i) ==
    IF i = 0 THEN <<>>
    ELSE IF a.users[a.performed[i].user]["email"] = email
         THEN Append(all_emotions_of(a, email, i - 1),
                     json_loads(a.performed[i].emotions_json))
         ELSE all_emotions_of(a, email, i - 1)

\* e.get(key, 0)
GetOrZero(e, key) == IF key \in DOMAIN e THEN e[key] ELSE Zero

\* sum(values) for one key.
RECURSIVE SumValues(_, _, _)
SumValues(all_emotions, key, i) ==
    IF i = 0 THEN Zero
    ELSE RatAdd(GetOrZero(all_emotions[i], key), SumValues(all_emotions, key, i - 1))

\* The profile that only looks at the analysis read last.
aggregate_profile_of_last(all_emotions) ==
    [key \in profile_emotion_keys |-> GetOrZero(all_emotions[Len(all_emotions)], key)]

\* profile[key] = sum(values) / len(values), for a non-empty list.
aggregate_profile(all_emotions) ==
    [key \in profile_emotion_keys |->
        RatDiv(SumValues(all_emotions, key, Len(all_emotions)),
               Rat(Len(all_emotions), 1))]

\* The SET of _update_aggregate_profile: the six profile properties of every
\* node with the email.
set_profile(a, email, profile) ==
    [a EXCEPT !.users =
        [u \in DOMAIN @ |->
            IF @[u]["email"] = email
            THEN [email |-> email, profile |-> profile]
            ELSE @[u]]]

\* _update_aggregate_profile, given what its read returned: nothing is
\* written when the read returned no analysis.
update_aggregate_profile(a, email, all_emotions) ==
    IF Len(all_emotions) = 0 THEN a
    ELSE set_profile(a, email, aggregate_profile(all_emotions))

\* The store after the first statement of save_analysis.
AfterCreate(a, email, emotions) ==
    create_analyses(a, UsersByEmail(a, email), json_dumps(emotions))

\* The store after the profile update that follows it.
AfterUpdate(a, email) ==
    update_aggregate_profile(a, email, all_emotions_of(a, email, Len(a.performed)))

\* save_analysis served without interruption: without a row there is no
\* record and None is returned; otherwise the profile is updated and the
\* analysis returned with its emotions parsed back.
save_analysis(a, email, emotions) ==
    IF UsersByEmail(a, email) = {}
    THEN [accounts |-> a, value |-> [none |-> TRUE]]
    ELSE [accounts |-> AfterUpdate(AfterCreate(a, email, emotions), email),
          value |-> [none |-> FALSE,
                     emotions |-> json_loads(json_dumps(emotions))]]

\* record[key] or 0.0, for every key of the profile.
ProfileOrZero(node) ==
    [key \in profile_emotion_keys |->
        IF "profile" \in DOMAIN node THEN node["profile"][key] ELSE Zero]

\* get_emotion_profile: the zero profile without a record, else the record's
\* values with null read as 0.0 (the record is a row of the MATCH).
get_emotion_profile(a, email) ==
    IF UsersByEmail(a, email) = {}
    THEN {[key \in profile_emotion_keys |-> Zero]}
    ELSE {ProfileOrZero(a.users[u]) : u \in UsersByEmail(a, email)}

Register ==
    \E email \in Emails :
        /\ Idle
        /\ Len(accounts.users) < MaxAccounts \/ get_user_by_email(accounts, email)
        /\ accounts' = register(accounts, email).accounts
        /\ op' = [name |-> "register", email |-> email]
        /\ result' = [raised |-> register(accounts, email).raised,
                      detail |-> register(accounts, email).detail]
        /\ UNCHANGED <<movies, graph, requests>>

SaveAnalysis ==
    \E email \in Emails, emotions \in AnalysisInputs :
        /\ Idle
        /\ Len(accounts.performed) < MaxAnalyses
        /\ accounts' = save_analysis(accounts, email, emotions).accounts
        /\ op' = [name |-> "save_analysis", email |-> email, emotions |-> emotions]
        /\ result' = save_analysis(accounts, email, emotions).value
        /\ UNCHANGED <<movies, graph, requests>>

GetEmotionProfile ==
    \E email \in Emails :
        /\ Idle
        /\ op' = [name |-> "get_emotion_profile", email |-> email]
        /\ result' \in get_emotion_profile(accounts, email)
        /\ UNCHANGED <<movies, graph, accounts, requests>>

HistoryNext ==
    \/ Register
    \/ SaveAnalysis
    \/ GetEmotionProfile
    \/ Return

\* Registrations, analyses and profile reads, served one at a time.
SpecHistory == Init /\ [][HistoryNext]_vars

---------------------------------------------------------------------------
(* The watchlist of a user (UserService, route user_data).                 *)

\* The WANTS_TO_WATCH relationships from a node with the email to the movie.
WantsOf(a, email, movie_id) ==
    {i \in 1..Len(a.wants) :
        /\ a.users[a.wants[i].user]["email"] = email
        /\ a.wants[i].movie = movie_id}

\* The relationships that are not in `deleted`, in their order.
RECURSIVE Remaining(_, _, _)
Remaining(wants, deleted, i) ==
    IF i = 0 THEN <<>>
    ELSE IF i \in deleted THEN Remaining(wants, deleted, i - 1)
         ELSE Append(Remaining(wants, deleted, i - 1), wants[i])

\* The relationship is made for every matched node, whether it has one or not.
RECURSIVE create_wants(_, _, _)
create_wants(a, matched, movie_id) ==
    IF matched = {} THEN a
    ELSE create_wants(
            [a EXCEPT !.wants =
                Append(@, [user |-> CHOOSE u \in matched : \A v \in matched : u <= v,
                           movie |-> movie_id])],
            matched \ {CHOOSE u \in matched : \A v \in matched : u <= v},
            movie_id)

\* add_to_watchlist with CREATE in the place of the second MERGE.
add_to_watchlist_creating(a, email, movie_id) ==
    [accounts |-> create_wants(a, UsersByEmail(a, email), movie_id),
     value |-> UsersByEmail(a, email) # {}]

\* MERGE (u)-[r:WANTS_TO_WATCH]->(m) for every row of the MATCH: the
\* relationship is made for the nodes that do not have it.
merge_wants(a, matched, movie_id) ==
    create_wants(a, {u \in matched :
                        ~\E i \in 1..Len(a.wants) :
                            a.wants[i] = [user |-> u, movie |-> movie_id]},
                 movie_id)

\* add_to_watchlist: a row, and so a record, for every node with the email.
add_to_watchlist(a, email, movie_id) ==
    [accounts |-> merge_wants(a, UsersByEmail(a, email), movie_id),
     value |-> UsersByEmail(a, email) # {}]

\* remove_from_watchlist: the matched relationships are deleted and counted.
remove_from_watchlist(a, email, movie_id) ==
    [accounts |-> [a EXCEPT !.wants =
                      Remaining(@, WantsOf(a, email, movie_id), Len(@))],
     value |-> Cardinality(WantsOf(a, email, movie_id)) > 0]

\* The relationships the MATCH of clear_watchlist finds.
AllWantsOf(a, email) ==
    {i \in 1..Len(a.wants) : a.users[a.wants[i].user]["email"] = email}

\* clear_watchlist: every relationship of the user is deleted and counted.
clear_watchlist(a, email) ==
    [accounts |-> [a EXCEPT !.wants = Remaining(@, AllWantsOf(a, email), Len(@))],
     value |-> Cardinality(AllWantsOf(a, email))]

\* is_in_watchlist: count(m) > 0
is_in_watchlist(a, email, movie_id) == Cardinality(WantsOf(a, email, movie_id)) > 0

AddToWatchlist ==
    \E email \in Emails, movie_id \in GraphMovieIds :
        /\ Idle
        /\ accounts' = add_to_watchlist(accounts, email, movie_id).accounts
        /\ op' = [name |-> "add_to_watchlist", email |-> email, movie_id |-> movie_id]
        /\ result' = add_to_watchlist(accounts, email, movie_id).value
        /\ UNCHANGED <<movies, graph, requests>>

RemoveFromWatchlist ==
    \E email \in Emails, movie_id \in GraphMovieIds :
        /\ Idle
        /\ accounts' = remove_from_watchlist(accounts, email, movie_id).accounts
        /\ op' = [name |-> "remove_from_watchlist", email |-> email,
                  movie_id |-> movie_id]
        /\ result' = remove_from_watchlist(accounts, email, movie_id).value
        /\ UNCHANGED <<movies, graph, requests>>

ClearWatchlist ==
    \E email \in Emails :
        /\ Idle
        /\ accounts' = clear_watchlist(accounts, email).accounts
        /\ op' = [name |-> "clear_watchlist", email |-> email]
        /\ result' = clear_watchlist(accounts, email).value
        /\ UNCHANGED <<movies, graph, requests>>

IsInWatchlist ==
    \E email \in Emails, movie_id \in GraphMovieIds :
        /\ Idle
        /\ op' = [name |-> "is_in_watchlist", email |-> email, movie_id |-> movie_id]
        /\ result' = is_in_watchlist(accounts, email, movie_id)
        /\ UNCHANGED <<movies, graph, accounts, requests>>

WatchNext ==
    \/ Register
    \/ AddToWatchlist
    \/ RemoveFromWatchlist
    \/ ClearWatchlist
    \/ IsInWatchlist
    \/ Return

\* Registrations and watchlist calls, served one at a time.
SpecWatch == Init /\ [][WatchNext]_vars

---------------------------------------------------------------------------
(* Requests served at the same time. The handlers hold no lock and open no *)
(* transaction over their statements: every session.run is a transaction  *)
(* of its own, so the statements of requests served by different workers   *)
(* reach the store in any order.                                           *)

WorkerIdle(w) == requests[w]["name"] = "idle"

\* Both emails registered, no analysis saved, no request in progress.
RegisteredInit ==
    /\ movies = <<>>
    /\ graph = EmptyGraph
    /\ accounts = [EmptyAccounts EXCEPT
                      !.users = <<[email |-> "ann@x.org"], [email |-> "bob@x.org"]>>]
    /\ requests = NoRequests
    /\ op = [name |-> "idle"]
    /\ result = <<>>

\* A worker takes a save_analysis request and runs its first statement; with
\* no row there is no record and the request ends with None.
SaveCreate(w) ==
    \E email \in Emails, emotions \in AnalysisInputs :
        /\ WorkerIdle(w)
        /\ Len(accounts.performed) < MaxAnalyses
        /\ accounts' = AfterCreate(accounts, email, emotions)
        /\ requests' = [requests EXCEPT ![w] =
                          IF UsersByEmail(accounts, email) = {}
                          THEN [name |-> "idle"]
                          ELSE [name |-> "save_analysis", at |-> "read",
                                email |-> email]]
        /\ UNCHANGED <<movies, graph, op, result>>

\* The read of _update_aggregate_profile; with nothing read the request ends.
SaveRead(w) ==
    /\ requests[w]["name"] = "save_analysis"
    /\ requests[w]["at"] = "read"
    /\ requests' = [requests EXCEPT ![w] =
          IF Len(all_emotions_of(accounts, requests[w]["email"],
                                 Len(accounts.performed))) = 0
          THEN [name |-> "idle"]
          ELSE [name |-> "save_analysis", at |-> "set",
                email |-> requests[w]["email"],
                all_emotions |-> all_emotions_of(accounts, requests[w]["email"],
                                                 Len(accounts.performed))]]
    /\ UNCHANGED <<movies, graph, accounts, op, result>>

\* The SET of _update_aggregate_profile, from what the request has read; the
\* request then returns.
SaveSetProfile(w) ==
    /\ requests[w]["name"] = "save_analysis"
    /\ requests[w]["at"] = "set"
    /\ accounts' = update_aggregate_profile(accounts, requests[w]["email"],
                                            requests[w]["all_emotions"])
    /\ requests' = [requests EXCEPT ![w] = [name |-> "idle"]]
    /\ UNCHANGED <<movies, graph, op, result>>

SaveRaceNext ==
    \E w \in Workers :
        \/ SaveCreate(w)
        \/ SaveRead(w)
        \/ SaveSetProfile(w)

\* save_analysis requests of registered users, served by the workers.
SpecSaveRace == RegisteredInit /\ [][SaveRaceNext]_vars

\* The register requests that have found no user and have not created theirs.
AboutToCreate ==
    {w \in Workers : /\ requests[w]["name"] = "register"
                     /\ requests[w]["at"] = "create"
                     /\ ~requests[w]["existing_user"]}

\* A worker takes a register request and looks the email up.
RegisterCheck(w) ==
    \E email \in Emails :
        /\ WorkerIdle(w)
        /\ \/ Len(accounts.users) + Cardinality(AboutToCreate) < MaxAccounts
           \/ get_user_by_email(accounts, email)
        /\ requests' = [requests EXCEPT ![w] =
                          [name |-> "register", at |-> "create", email |-> email,
                           existing_user |-> get_user_by_email(accounts, email)]]
        /\ UNCHANGED <<movies, graph, accounts, op, result>>

\* The rest of register, from what the lookup gave: the 400 response, or the
\* user created and returned.
RegisterCreate(w) ==
    /\ requests[w]["name"] = "register"
    /\ requests[w]["at"] = "create"
    /\ accounts' = IF requests[w]["existing_user"] THEN accounts
                   ELSE create_user_by_email(accounts, requests[w]["email"])
    /\ requests' = [requests EXCEPT ![w] =
                      [name |-> "register", at |-> "respond",
                       email |-> requests[w]["email"],
                       raised |-> requests[w]["existing_user"],
                       detail |-> IF requests[w]["existing_user"]
                                  THEN "Email already registered" ELSE ""]]
    /\ UNCHANGED <<movies, graph, op, result>>

\* The response leaves the worker.
RegisterRespond(w) ==
    /\ requests[w]["name"] = "register"
    /\ requests[w]["at"] = "respond"
    /\ requests' = [requests EXCEPT ![w] = [name |-> "idle"]]
    /\ UNCHANGED <<movies, graph, accounts, op, result>>

RegisterRaceNext ==
    \E w \in Workers :
        \/ RegisterCheck(w)
        \/ RegisterCreate(w)
        \/ RegisterRespond(w)

\* register requests served by the workers.
SpecRegisterRace == Init /\ [][RegisterRaceNext]_vars

(* Properties of the similarity scorer (checked under SpecSim).            *)

Scored == op["name"] = "calculate_similarity"

\* The movie has a stored, non-empty emotion profile.
HasStoredProfile(movie) ==
    /\ "emotions" \in DOMAIN movie
    /\ DOMAIN movie["emotions"] # {}

\* The profile a candidate is scored against: the stored one or, for a movie
\* without one, the profile generated from its genres.
ProfileOf(movie) ==
    IF HasStoredProfile(movie) THEN movie["emotions"]
    ELSE generate_emotions_from_genres(movie)

\* cand[d]: the top level for a derived dimension; otherwise the nested
\* base_emotions, and the flat top level only when base_emotions is absent or
\* empty; 0 for a dimension the candidate does not carry.
CandidateValue(movie, d) ==
    LET profile == ProfileOf(movie)
        nested == /\ "base_emotions" \in DOMAIN profile
                  /\ DOMAIN profile["base_emotions"] # {}
        source == IF d \notin {"thrill", "romance", "inspiration", "humor"} /\ nested
                  THEN profile["base_emotions"] ELSE profile
    IN  IF d \in DOMAIN source THEN source[d] ELSE Zero

QuerySum(q) == RatSum(q, DOMAIN q)

\* clamp( sum over d of (q[d] / sum(q)) * cand[d] ), evaluated in floats with
\* the dimensions taken in the given order.
ExpectedScore(q, movie, order) ==
    LET dims == 1..Len(order)
        query == [i \in dims |-> Fl[q[order[i]]]]
        total == NpSum(query)
        terms == [i \in dims |->
                    FlMul[FlDiv[query[i], total], Fl[CandidateValue(movie, order[i])]]]
        match == NpSum(terms)
    IN  IF RatLess(match, Zero) THEN Zero
        ELSE IF RatLess(One, match) THEN One
        ELSE match

InUnitInterval(x) == RatLeq(Zero, x) /\ RatLeq(x, One)

NonNegativeQuery(q) == \A d \in DOMAIN q : RatLeq(Zero, q[d])

NonNegativeCandidate(q, movie) ==
    \A d \in DOMAIN q : RatLeq(Zero, CandidateValue(movie, d))

\* k is 2^i or 2^-i.
PowerOfTwo(k) ==
    \E i \in 0..MantissaBits : k = Rat(2^i, 1) \/ k = Rat(1, 2^i)

\* x and y differ by at most `units` unit roundoffs (2^-MantissaBits) of the
\* smaller of them.
WithinRoundoffs(x, y, units) ==
    LET low == RatMin(x, y)
        high == RatMax(x, y)
        gap == RatAdd(high, RatMul(Rat(-1, 1), low))
    IN  RatLeq(RatMul(Rat(2^MantissaBits, 1), gap), RatMul(Rat(units, 1), low))

\* Claim C3, as amended: scaling the query by k > 0 leaves the score unchanged
\* up to floating-point rounding.  The two scores are equal when k is a power
\* of two; for a non-negative query of n dimensions and a non-negative
\* candidate they differ by at most 4n + 4 unit roundoffs of the smaller one.
C3_ScaleInvariantUpToRounding ==
    Scored =>
        /\ PowerOfTwo(op["k"]) => result["similarity"] = result["scaled"]
        /\ (/\ NonNegativeQuery(op["user_emotions"])
            /\ NonNegativeCandidate(op["user_emotions"], op["movie"]))
              => WithinRoundoffs(result["similarity"], result["scaled"],
                                 4 * Cardinality(DOMAIN op["user_emotions"]) + 4)

\* A non-negative two-dimension query scaled by 3 whose two scores differ, by
\* less than the rounding allowance.
C3_Witness ==
    /\ Scored
    /\ op["k"] = Rat(3, 1)
    /\ Cardinality(DOMAIN op["user_emotions"]) = 2
    /\ NonNegativeQuery(op["user_emotions"])
    /\ NonNegativeCandidate(op["user_emotions"], op["movie"])
    /\ result["scaled"] # result["similarity"]
    /\ WithinRoundoffs(result["similarity"], result["scaled"], 12)

\* Claim C3, as stated: score(q, c) = score(k * q, c) for every k > 0.
C3_ScaleInvariant ==
    Scored => result["similarity"] = result["scaled"]

ScoresInUnitInterval(recommendations) ==
    \A i \in 1..Len(recommendations) :
        InUnitInterval(recommendations[i].similarity_score)

\* Claim C4: with non-negative query weights and candidate values the score
\* lies in [0, 1], and so does the similarity_score of every entry returned
\* by recommend_by_emotions, recommend_by_mood and get_similar_movies.
C4_ScoreInUnitInterval ==
    /\ (/\ Scored
        /\ NonNegativeQuery(op["user_emotions"])
        /\ NonNegativeCandidate(op["user_emotions"], op["movie"]))
           => InUnitInterval(result["similarity"])
    /\ (op["name"] = "recommend_by_emotions" /\ NonNegativeQuery(op["user_emotions"]))
           => ScoresInUnitInterval(result)
    /\ op["name"] \in {"recommend_by_mood", "get_similar_movies"}
           => ScoresInUnitInterval(result)

\* recommend_by_emotions returned, at score 1, a movie whose value on the
\* query's dimension is above 1.
C4_Witness ==
    /\ op["name"] = "recommend_by_emotions"
    /\ op["user_emotions"] = [joy |-> One]
    /\ \E i \in 1..Len(result) :
          /\ RatLess(One, CandidateValue(result[i].movie, "joy"))
          /\ result[i].similarity_score = One

\* The query has no dimension, or its weights sum to 0.
Degenerate(q) == DOMAIN q = {} \/ QuerySum(q) = Zero

\* Claim C5: a degenerate query (empty, or weights summing to 0) scores 0
\* against every candidate, and recommend_by_emotions still returns a list
\* for it, every entry scored 0.
C5_DegenerateQueryScoresZero ==
    /\ (Scored /\ Degenerate(op["user_emotions"]))
           => result["similarity"] = Zero
    /\ (op["name"] = "recommend_by_emotions" /\ Degenerate(op["user_emotions"]))
           => /\ DOMAIN result = 1..Len(result)
              /\ \A i \in 1..Len(result) : result[i].similarity_score = Zero

\* Weights that are not 0 but sum to 0, against a candidate that carries a
\* positive value on one of the dimensions.
C5_Witness ==
    /\ Scored
    /\ DOMAIN op["user_emotions"] # {}
    /\ \A d \in DOMAIN op["user_emotions"] : op["user_emotions"][d] # Zero
    /\ QuerySum(op["user_emotions"]) = Zero
    /\ \E d \in DOMAIN op["user_emotions"] :
          RatLess(Zero, CandidateValue(op["movie"], d))
    /\ result["similarity"] = Zero

\* Claim C6, as amended: a candidate without an emotion profile (the field
\* missing or empty) is scored exactly as the same movie carrying the profile
\* generated from its genres, which is the default neutral profile when no
\* genre is known; its values are not taken as 0.
C6_NoProfileScoredOnGenreProfile ==
    (Scored /\ ~HasStoredProfile(op["movie"]))
        => \E order \in KeyOrders(DOMAIN op["user_emotions"]) :
              result["similarity"] =
                  calculate_similarity(op["user_emotions"],
                      SetField(op["movie"], "emotions",
                               generate_emotions_from_genres(op["movie"])),
                      order)

\* A movie with neither a profile nor genres scored 0.3 for {joy: 1.0}: the
\* joy of the default neutral profile.
C6_Witness ==
    /\ Scored
    /\ "emotions" \notin DOMAIN op["movie"]
    /\ "genres" \notin DOMAIN op["movie"]
    /\ op["user_emotions"] = [joy |-> One]
    /\ result["similarity"] = Fl[Tenths(3)]

\* Claim C6, as stated: a candidate without an emotion profile scores 0.
C6_NoProfileScoresZero ==
    (Scored /\ ~HasStoredProfile(op["movie"]))
        => result["similarity"] = Zero

---------------------------------------------------------------------------
(* Properties of the recommendation reads (checked under Spec).            *)

Recommended == op["name"] = "recommend_by_emotions"

HasRatingAtLeast(movie, min_rating) ==
    /\ "vote_average" \in DOMAIN movie
    /\ RatLeq(min_rating, movie["vote_average"])

\* The positions of the store's eligible candidates: the movies carrying an
\* emotions field and, for min_rating > 0, a rating of at least min_rating.
EligibleCandidates(min_rating) ==
    {j \in 1..Len(movies) :
        /\ "emotions" \in DOMAIN movies[j]
        /\ RatLess(Zero, min_rating) => HasRatingAtLeast(movies[j], min_rating)}

Returned(j) == \E i \in 1..Len(result) : result[i].movie = movies[j]

\* Claim C7: recommend_by_emotions returns min(limit, number of eligible
\* candidates) distinct eligible movies with their scores, in non-increasing
\* order of score; no omitted candidate scores strictly higher than a returned
\* one; with no eligible candidate the result is the empty list.
C7_RankedAndTruncated ==
    Recommended =>
        \E order \in KeyOrders(DOMAIN op["user_emotions"]) :
        LET eligible == EligibleCandidates(op["min_rating"])
            Score(j) == calculate_similarity(op["user_emotions"], movies[j], order)
            expected_len == IF op["limit"] < Cardinality(eligible)
                            THEN op["limit"] ELSE Cardinality(eligible)
        IN  /\ DOMAIN result = 1..expected_len
            /\ \A i \in 1..(Len(result) - 1) :
                  RatLeq(result[i + 1].similarity_score, result[i].similarity_score)
            /\ \A i \in 1..Len(result) :
                  \E j \in eligible :
                      /\ result[i].movie = movies[j]
                      /\ result[i].similarity_score = Score(j)
            /\ \A i, k \in 1..Len(result) :
                  i # k => result[i].movie["id"] # result[k].movie["id"]
            /\ \A j \in eligible :
                  ~Returned(j) =>
                      \A i \in 1..Len(result) :
                          ~RatLess(result[i].similarity_score, Score(j))
            /\ eligible = {} => result = <<>>

\* The limit cut the list, and the one movie returned is not the first of the
\* store: the first eligible movie scores strictly lower and was left out.
C7_Witness ==
    /\ Recommended
    /\ op["limit"] = 1
    /\ Len(result) = 1
    /\ 1 \in EligibleCandidates(op["min_rating"])
    /\ ~Returned(1)
    /\ \A order \in KeyOrders(DOMAIN op["user_emotions"]) :
          RatLess(calculate_similarity(op["user_emotions"], movies[1], order),
                  result[1].similarity_score)

\* Claim C8: with min_rating > 0 every returned movie has a vote_average of at
\* least min_rating; with min_rating = 0 no movie carrying a profile is left
\* out for its rating, a movie without any rating included: it is returned
\* unless the limit is reached.
C8_MinRatingFilter ==
    Recommended =>
        /\ RatLess(Zero, op["min_rating"]) =>
              \A i \in 1..Len(result) :
                  HasRatingAtLeast(result[i].movie, op["min_rating"])
        /\ op["min_rating"] = Zero =>
              \A j \in 1..Len(movies) :
                  "emotions" \in DOMAIN movies[j] =>
                      Returned(j) \/ Len(result) = op["limit"]

\* min_rating = 6.0 left out a movie that carries a profile and a lower
\* rating, with room left under the limit, and returned another one.
C8_Witness ==
    /\ Recommended
    /\ op["min_rating"] = Tenths(60)
    /\ Len(result) > 0
    /\ Len(result) < op["limit"]
    /\ \E j \in 1..Len(movies) :
          /\ "emotions" \in DOMAIN movies[j]
          /\ "vote_average" \in DOMAIN movies[j]
          /\ RatLess(movies[j]["vote_average"], op["min_rating"])
          /\ ~Returned(j)

\* Claim C9: a movie without a stored profile, whose profile the genre
\* fallback can derive, is a candidate of recommend_by_emotions: it is
\* returned with its score against the derived profile unless the limit is
\* reached.
C9_ProfilelessCandidateKept ==
    Recommended =>
        \A j \in 1..Len(movies) :
            (/\ ~HasStoredProfile(movies[j])
             /\ RatLess(Zero, op["min_rating"])
                   => HasRatingAtLeast(movies[j], op["min_rating"]))
                => \/ Len(result) = op["limit"]
                   \/ \E i \in 1..Len(result),
                         order \in KeyOrders(DOMAIN op["user_emotions"]) :
                         /\ result[i].movie = movies[j]
                         /\ result[i].similarity_score =
                               calculate_similarity(op["user_emotions"],
                                   SetField(movies[j], "emotions",
                                       generate_emotions_from_genres(movies[j])),
                                   order)

ReadOperations ==
    {"recommend_by_emotions", "recommend_by_mood", "get_similar_movies",
     "get_by_emotion_distribution", "get_movie_emotions"}

\* Claim C10: a step of recommend_by_emotions, recommend_by_mood,
\* get_similar_movies, get_by_emotion_distribution or the /movies/{id}/emotions
\* read leaves the movies collection as it was: no profile is written back or
\* modified.
C10_ReadsLeaveStoreUnchanged ==
    [][op'["name"] \in ReadOperations => movies' = movies]_vars

\* The emotions read answered with a profile generated from the genres, and
\* the movie's record still has no emotions field.
C10_Witness ==
    /\ op["name"] = "get_movie_emotions"
    /\ "source" \in DOMAIN result
    /\ \E j \in 1..Len(movies) :
          /\ movies[j]["id"] = op["movie_id"]
          /\ "emotions" \notin DOMAIN movies[j]

---------------------------------------------------------------------------
(* Properties of get_similar_movies (checked under Spec).                  *)

SimilarCalled == op["name"] = "get_similar_movies"

\* The positions of the documents whose id is movie_id.
Referenced(movie_id) == {j \in 1..Len(movies) : movies[j]["id"] = movie_id}

\* The derived values of a stored profile, 0 for one it does not carry.
DerivedQuery(emotions) ==
    [d \in {"thrill", "romance", "inspiration", "humor"} |->
        IF d \in DOMAIN emotions THEN emotions[d] ELSE Zero]

\* The positions of the other candidates: the movies carrying an emotions
\* field, except the referenced one.
OtherCandidates(movie_id) ==
    {j \in 1..Len(movies) :
        "emotions" \in DOMAIN movies[j] /\ movies[j]["id"] # movie_id}

\* Claim C11: get_similar_movies queries with the thrill, romance,
\* inspiration and humor of the referenced movie's stored profile, never
\* returns the referenced movie, and returns the min(limit, number of other
\* candidates) highest-scoring other candidates, best first; a movie_id that
\* is not in the store, or whose movie has no emotions field, gives <<>>.
C11_SimilarMovies ==
    SimilarCalled =>
        IF \E j \in Referenced(op["movie_id"]) : "emotions" \in DOMAIN movies[j]
        THEN \E j \in Referenced(op["movie_id"]),
                order \in KeyOrders({"thrill", "romance", "inspiration", "humor"}) :
                LET others == OtherCandidates(op["movie_id"])
                    query == DerivedQuery(movies[j]["emotions"])
                    Score(k) == calculate_similarity(query, movies[k], order)
                IN  /\ Len(result) = IF op["limit"] < Cardinality(others)
                                     THEN op["limit"] ELSE Cardinality(others)
                    /\ \A i \in 1..Len(result) :
                          /\ result[i].movie["id"] # op["movie_id"]
                          /\ \E k \in others :
                                /\ result[i].movie = movies[k]
                                /\ result[i].similarity_score = Score(k)
                    /\ \A i, k \in 1..Len(result) :
                          i # k => result[i].movie["id"] # result[k].movie["id"]
                    /\ \A i \in 1..(Len(result) - 1) :
                          RatLeq(result[i + 1].similarity_score,
                                 result[i].similarity_score)
                    /\ \A k \in others :
                          ~Returned(k) =>
                              \A i \in 1..Len(result) :
                                  ~RatLess(result[i].similarity_score, Score(k))
        ELSE result = <<>>

\* The limit was reached with two other candidates in the store, the one left
\* out scoring strictly lower than the one returned, which scores above 0.
C11_Witness ==
    /\ SimilarCalled
    /\ op["limit"] = 1
    /\ Len(result) = 1
    /\ Cardinality(OtherCandidates(op["movie_id"])) = 2
    /\ RatLess(Zero, result[1].similarity_score)
    /\ \E k \in OtherCandidates(op["movie_id"]) :
          /\ ~Returned(k)
          /\ \A j \in Referenced(op["movie_id"]),
                order \in KeyOrders({"thrill", "romance", "inspiration", "humor"}) :
                RatLess(calculate_similarity(DerivedQuery(movies[j]["emotions"]),
                                             movies[k], order),
                        result[1].similarity_score)

---------------------------------------------------------------------------
(* Properties of get_by_emotion_distribution (checked under Spec).         *)

DistributionCalled == op["name"] = "get_by_emotion_distribution"

\* The positions of the movies whose stored profile names dominant_emotion.
Matching(dominant_emotion) ==
    {j \in 1..Len(movies) :
        /\ "emotions" \in DOMAIN movies[j]
        /\ "dominant_emotion" \in DOMAIN movies[j]["emotions"]
        /\ movies[j]["emotions"]["dominant_emotion"] = dominant_emotion}

\* Movie a is rated strictly lower than movie b (no rating is the lowest).
LowerRated(a, b) ==
    IF "vote_average" \notin DOMAIN b THEN FALSE
    ELSE IF "vote_average" \notin DOMAIN a THEN TRUE
    ELSE RatLess(a["vote_average"], b["vote_average"])

\* Claim C12: get_by_emotion_distribution(e, limit) returns only movies whose
\* stored dominant_emotion is exactly e, each with similarity_score 1, in
\* non-increasing order of rating, min(limit, number of matches) of them and
\* none rated below a match left out; with no match the result is <<>>.
C12_ByDominantEmotion ==
    DistributionCalled =>
        LET matching == Matching(op["dominant_emotion"])
        IN  /\ Len(result) = IF op["limit"] < Cardinality(matching)
                             THEN op["limit"] ELSE Cardinality(matching)
            /\ \A i \in 1..Len(result) :
                  /\ result[i].similarity_score = One
                  /\ \E j \in matching : result[i].movie = movies[j]
            /\ \A i, k \in 1..Len(result) :
                  i # k => result[i].movie["id"] # result[k].movie["id"]
            /\ \A i \in 1..(Len(result) - 1) :
                  ~LowerRated(result[i].movie, result[i + 1].movie)
            /\ \A j \in matching :
                  ~Returned(j) =>
                      \A i \in 1..Len(result) : ~LowerRated(result[i].movie, movies[j])
            /\ matching = {} => result = <<>>

\* Two movies of different ratings match, next to one that does not, and both
\* matches are returned.
C12_Witness ==
    /\ DistributionCalled
    /\ Len(result) = 2
    /\ LowerRated(result[2].movie, result[1].movie)
    /\ \E j \in 1..Len(movies) :
          /\ "emotions" \in DOMAIN movies[j]
          /\ j \notin Matching(op["dominant_emotion"])

---------------------------------------------------------------------------
(* Properties of recommend_by_mood (checked under Spec).                   *)

MoodCalled == op["name"] = "recommend_by_mood"

\* lowercase(trim(m))
Normalised(mood) == Lower(Strip(mood))

\* The query the mood stands for: its entry in the mood table when the
\* normalised mood is a key of the table, {joy: 0.5} otherwise.
MoodQuery(mood) ==
    IF Normalised(mood) \in DOMAIN mood_mappings
    THEN mood_mappings[Normalised(mood)]
    ELSE [joy |-> Tenths(5)]

\* The lists recommend_by_emotions may return for a query.
RecommendationsFor(user_emotions, limit, min_rating) ==
    {recommend_by_emotions(movies, user_emotions, limit, min_rating, emotion_keys) :
        emotion_keys \in KeyOrders(DOMAIN user_emotions)}

\* Claim C13: recommend_by_mood(m) returns what recommend_by_emotions returns
\* for MoodMap[lowercase(trim(m))] when that key exists and for {joy: 0.5}
\* otherwise; a mood in upper case or with surrounding whitespace gives what
\* its normalised spelling gives, and an unknown mood gives a list.
C13_MoodResolution ==
    MoodCalled =>
        /\ result \in RecommendationsFor(MoodQuery(op["mood"]), op["limit"],
                                         op["min_rating"])
        /\ result \in RecommendationsFor(MoodQuery(Normalised(op["mood"])),
                                         op["limit"], op["min_rating"])

\* A mood given in upper case, or with whitespace around it, that is a key of
\* the table once normalised, with a result the default query would not give.
C13_Witness ==
    /\ MoodCalled
    /\ op["mood"] # Normalised(op["mood"])
    /\ Normalised(op["mood"]) \in DOMAIN mood_mappings
    /\ Len(result) > 0
    /\ result \notin RecommendationsFor([joy |-> Tenths(5)], op["limit"],
                                        op["min_rating"])

---------------------------------------------------------------------------
(* Properties of the profiles analyze_all_movies stores (checked under     *)
(* Spec).                                                                  *)

BaseDimensions == {"joy", "sadness", "fear", "anger", "surprise", "disgust", "neutral"}

\* analyze_all_movies has just stored the profile aggregated from the scores
\* of the movie's reviews.
ReviewsAnalyzed == op["name"] = "analyze_all_movies" /\ "all_emotions" \in DOMAIN op

\* The profile analyze_all_movies has just stored.
StoredProfile == movies[FindOne(movies, op["movie_id"])]["emotions"]

\* The sum of dimension k over the first i vectors.
RECURSIVE Total(_, _, _)
Total(vectors, k, i) ==
    IF i = 0 THEN Zero ELSE RatAdd(vectors[i][k], Total(vectors, k, i - 1))

\* n times x equals total: x is total divided by n.
IsMean(x, total, n) == RatMul(Rat(n, 1), x) = total

\* Claim C14: for a non-empty sequence of n per-text vectors the base vector
\* of the aggregated profile is, per dimension, the sum of all n inputs
\* divided by n (an input that is 0 on the dimension counts in n) and
\* reviews_analyzed is n; for a single vector v the base vector is v and
\* reviews_analyzed is 1.
C14_MeanOfAllInputs ==
    ReviewsAnalyzed =>
        LET vectors == op["all_emotions"]
            n == Len(vectors)
        IN  /\ n > 0
            /\ DOMAIN StoredProfile["base_emotions"] = BaseDimensions
            /\ \A k \in BaseDimensions :
                  IsMean(StoredProfile["base_emotions"][k], Total(vectors, k, n), n)
            /\ StoredProfile["reviews_analyzed"] = n
            /\ n = 1 => /\ StoredProfile["base_emotions"] = vectors[1]
                        /\ StoredProfile["reviews_analyzed"] = 1

\* Two different vectors were aggregated, one of them 0 on a dimension on
\* which the other is not.
C14_Witness ==
    /\ ReviewsAnalyzed
    /\ Len(op["all_emotions"]) = 2
    /\ \E k \in BaseDimensions :
          /\ op["all_emotions"][1][k] = Zero
          /\ op["all_emotions"][2][k] # Zero
          /\ RatLess(Zero, StoredProfile["base_emotions"][k])
          /\ RatLess(StoredProfile["base_emotions"][k], op["all_emotions"][2][k])

---------------------------------------------------------------------------
(* Properties of the profile builders (checked under SpecPure).            *)

AggregateCalled == op["name"] = "analyze_reviews"

\* The value is an emotion profile, as from_base_emotions builds it.
IsProfile(value) ==
    {"base_emotions", "thrill", "romance", "inspiration", "humor",
     "dominant_emotion", "reviews_analyzed"} \subseteq DOMAIN value

\* Claim C15: given an empty sequence of texts the aggregator signals "no
\* data" to its caller: it returns no profile, and so no zero or neutral one.
C15_EmptyInputGivesNoProfile ==
    (AggregateCalled /\ Len(op["reviews"]) = 0) => ~IsProfile(result)


\* The call built a profile from base emotions: from the reviews' scores or
\* from the overview's.
BuiltFromBase == op["name"] \in {"analyze_reviews", "analyze_movie_overview"}

\* x is half of a + b.
IsHalfSum(x, a, b) == RatMul(Rat(2, 1), x) = RatAdd(a, b)

\* The base vector the derived values are computed from: the overview's
\* scores, or the mean of the reviews' scores (the neutral scores for none).
BaseOf(vectors, k) ==
    IF Len(vectors) = 0 THEN NeutralScores[k]
    ELSE RatDiv(Total(vectors, k, Len(vectors)), Rat(Len(vectors), 1))

SourceBase(k) ==
    IF op["name"] = "analyze_reviews" THEN BaseOf(op["all_emotions"], k)
    ELSE op["emotions"][k]

\* Claim C16: every profile built from base emotions, from reviews or from an
\* overview, has thrill = (fear + surprise) / 2, inspiration =
\* (joy + surprise) / 2, romance = joy and humor = joy, over the averaged base
\* vector, and every derived value is in [0, 1] when the base values are.
C16_DerivedFromBase ==
    BuiltFromBase =>
        /\ \A k \in BaseDimensions : result["base_emotions"][k] = SourceBase(k)
        /\ IsHalfSum(result["thrill"], SourceBase("fear"), SourceBase("surprise"))
        /\ IsHalfSum(result["inspiration"], SourceBase("joy"), SourceBase("surprise"))
        /\ result["romance"] = SourceBase("joy")
        /\ result["humor"] = SourceBase("joy")
        /\ (\A k \in BaseDimensions : InUnitInterval(SourceBase(k))) =>
              \A d \in {"thrill", "romance", "inspiration", "humor"} :
                  InUnitInterval(result[d])

\* Three reviews, not all scored alike, gave a profile whose thrill,
\* inspiration and romance are three different values above 0.
C16_Witness ==
    /\ op["name"] = "analyze_reviews"
    /\ Len(op["all_emotions"]) = 3
    /\ op["all_emotions"][1] # op["all_emotions"][2]
    /\ RatLess(Zero, result["thrill"])
    /\ result["thrill"] # result["inspiration"]
    /\ result["inspiration"] # result["romance"]
    /\ RatLess(Zero, result["romance"])


\* The call produced a profile: the analyser's or a genre fallback's.
ProfileProduced ==
    op["name"] \in {"analyze_reviews", "analyze_movie_overview",
                    "generate_emotions_from_genres",
                    "route_generate_emotions_from_genres"}

\* The base dimensions in their fixed order.
CanonicalOrder == <<"joy", "sadness", "fear", "anger", "surprise", "disgust", "neutral">>

\* The base values of the produced profile: nested under base_emotions, or
\* flat in the dict the route returns.
ResultBase ==
    IF "base_emotions" \in DOMAIN result THEN result["base_emotions"]
    ELSE [k \in DOMAIN result \cap BaseDimensions |-> result[k]]

DerivedDimensions == {"thrill", "romance", "inspiration", "humor"}

ServiceFallbackCalled == op["name"] = "generate_emotions_from_genres"

RouteFallbackCalled == op["name"] = "route_generate_emotions_from_genres"

GenreFallbackCalled == ServiceFallbackCalled \/ RouteFallbackCalled

\* The genre table of the fallback that was called.
TableCalled == IF ServiceFallbackCalled THEN genre_emotions ELSE route_genre_emotions

\* The listed genres that are in the table and have a value for dimension e.
Influencing(table, names, e) ==
    {g \in {names[i] : i \in 1..Len(names)} : g \in DOMAIN table /\ e \in DOMAIN table[g]}

\* The listed genres that are in the table.
Known(table, names) == {g \in {names[i] : i \in 1..Len(names)} : g \in DOMAIN table}

\* v is the greatest table value of dimension e over the listed genres, 0
\* when no listed genre has one.
IsMaxOverGenres(v, table, names, e) ==
    IF Influencing(table, names, e) = {} THEN v = Zero
    ELSE /\ \E g \in Influencing(table, names, e) : v = table[g][e]
         /\ \A g \in Influencing(table, names, e) : RatLeq(table[g][e], v)

\* The value of dimension e in the produced profile.
ResultValue(e) ==
    IF "base_emotions" \in DOMAIN result /\ e \in DOMAIN result["base_emotions"]
    THEN result["base_emotions"][e] ELSE result[e]

\* What the called fallback gives for the genres `names`.
FallbackOf(names) ==
    IF ServiceFallbackCalled THEN generate_emotions_from_genres([genres |-> GenreDicts(names)])
    ELSE route_generate_emotions_from_genres(GenreDicts(names))

SameGenres(a, b) == {a[i] : i \in 1..Len(a)} = {b[i] : i \in 1..Len(b)}

\* Claim C18 as stated: for every list of genres the genre-derived profile
\* holds on each dimension the maximum over the listed genres found in the
\* table, 0 for a dimension no listed genre influences.
C18_MaxOverGenres ==
    GenreFallbackCalled =>
        \A e \in CombinedKeys : IsMaxOverGenres(ResultValue(e), TableCalled, op["genres"], e)

\* Claim C18, amended: for every list of genres of which at least one is in
\* the table, the genre-derived profile holds on each dimension the maximum
\* over the listed genres found in the table, 0 for a dimension no listed
\* genre influences, and every list of the same genres, in any order and with
\* any repetition, gives the same profile.
C18_MaxOverKnownGenres ==
    (GenreFallbackCalled /\ Known(TableCalled, op["genres"]) # {}) =>
        /\ \A e \in CombinedKeys :
              IsMaxOverGenres(ResultValue(e), TableCalled, op["genres"], e)
        /\ \A other \in SeqsUpTo(GenreInputs, MaxGenres) :
              SameGenres(other, op["genres"]) => FallbackOf(other) = result

\* Horror and Comedy, with a genre listed twice: joy is the greater of the
\* two joys, which is not their average.
C18_Witness ==
    /\ GenreFallbackCalled
    /\ Len(op["genres"]) = 3
    /\ {op["genres"][i] : i \in 1..3} = {"Horror", "Comedy"}
    /\ op["genres"][3] = "Horror"
    /\ ResultValue("joy") = Tenths(9)
    /\ ResultValue("fear") = Tenths(9)


\* The profile the service returns when no genre is known.
ServiceDefault ==
    [base_emotions |-> [joy |-> Rat(3, 10), sadness |-> Rat(2, 10), fear |-> Rat(2, 10),
                        anger |-> Rat(1, 10), surprise |-> Rat(2, 10),
                        disgust |-> Rat(1, 10)],
     thrill |-> Rat(2, 10), romance |-> Rat(2, 10), humor |-> Rat(2, 10),
     inspiration |-> Rat(2, 10), dominant_emotion |-> "joy"]

\* The dict the route returns when no genre is known.
RouteDefault ==
    [joy |-> Zero, sadness |-> Zero, fear |-> Zero, anger |-> Zero, surprise |-> Zero,
     disgust |-> Zero, thrill |-> Zero, romance |-> Zero, humor |-> Zero,
     inspiration |-> Zero, dominant_emotion |-> "joy"]

---------------------------------------------------------------------------
(* Properties of the collaborative recommendations (checked under          *)
(* SpecGraph).                                                             *)

RecommendedForUser == op["name"] = "get_recommended_movies_for_user"

\* The movies the user has a WATCHED relationship with, liked or not.
WatchedBy(user_id) == {m \in GraphMovieIds : <<user_id, m>> \in DOMAIN graph.watched}

\* The other users who like a movie the user likes.
Neighbours(user_id) ==
    {other \in graph.users \ {user_id} :
        \E m \in GraphMovieIds :
            /\ <<user_id, m>> \in DOMAIN graph.watched
            /\ graph.watched[<<user_id, m>>].liked
            /\ <<other, m>> \in DOMAIN graph.watched
            /\ graph.watched[<<other, m>>].liked}

\* Claim C20: in every state of the interaction graph and for every user u,
\* no movie returned by get_recommended_movies_for_user(u, limit) is a movie
\* u has a WATCHED relationship with, liked or not.
C20_NoWatchedMovieRecommended ==
    RecommendedForUser =>
        \A i \in 1..Len(result.value) : result.value[i] \notin WatchedBy(op["user_id"])

\* The call returned for a user with a neighbour who likes a movie the user
\* has watched without liking it.
C20_Witness ==
    /\ RecommendedForUser
    /\ ~result.raised
    /\ \E other \in Neighbours(op["user_id"]), m \in WatchedBy(op["user_id"]) :
          /\ ~graph.watched[<<op["user_id"], m>>].liked
          /\ <<other, m>> \in DOMAIN graph.watched
          /\ graph.watched[<<other, m>>].liked


\* The user likes the movie: its WATCHED relationship carries liked = true.
Likes(user_id, m) ==
    /\ <<user_id, m>> \in DOMAIN graph.watched
    /\ graph.watched[<<user_id, m>>].liked

\* The number of the user's neighbours who like the movie.
NeighbourScore(user_id, m) ==
    Cardinality({other \in Neighbours(user_id) : Likes(other, m)})

\* The movies a neighbour likes and the user has not interacted with.
Recommendable(user_id) ==
    {m \in GraphMovieIds \ WatchedBy(user_id) : NeighbourScore(user_id, m) > 0}

\* Claim C21: get_recommended_movies_for_user returns, without raising, the
\* movies liked by the neighbours and not yet interacted with by the target,
\* in non-increasing order of the number of neighbours who like them, cut to
\* limit: min(limit, number of such movies) distinct movies, none left out
\* that more neighbours like than one returned.
C21_RankedNeighbourLikes ==
    RecommendedForUser =>
        LET expected == Recommendable(op["user_id"])
            Score(m) == NeighbourScore(op["user_id"], m)
        IN  /\ ~result.raised
            /\ Len(result.value) = IF op["limit"] < Cardinality(expected)
                                   THEN op["limit"] ELSE Cardinality(expected)
            /\ \A i \in 1..Len(result.value) : result.value[i] \in expected
            /\ \A i, j \in 1..Len(result.value) :
                  i # j => result.value[i] # result.value[j]
            /\ \A i \in 1..(Len(result.value) - 1) :
                  Score(result.value[i]) >= Score(result.value[i + 1])
            /\ \A m \in expected :
                  (\A i \in 1..Len(result.value) : result.value[i] # m) =>
                      \A i \in 1..Len(result.value) : Score(result.value[i]) >= Score(m)

---------------------------------------------------------------------------
(* Properties of the neighbour selection (checked under SpecCrowd).        *)

\* The number of movies both users like.
CommonCount(user_id, other) ==
    Cardinality({m \in GraphMovieIds : Likes(user_id, m) /\ Likes(other, m)})

\* The sets of neighbours the statement may keep for the call.
SelectedNeighbours ==
    TopNeighbours(graph, op["user_id"], SimilarUsers(graph, op["user_id"]))

\* Claim C22: the neighbours get_recommended_movies_for_user uses are at most
\* 5 users other than the target, each with at least one liked movie in
\* common with the target, and no user left out has strictly more liked
\* movies in common with the target than a user kept; a user sharing a liked
\* movie is left out only when 5 are kept.
C22_TopFiveNeighbours ==
    RecommendedForUser =>
        /\ SelectedNeighbours # {}
        /\ \A kept \in SelectedNeighbours :
              /\ Cardinality(kept) <= 5
              /\ kept \subseteq graph.users \ {op["user_id"]}
              /\ \A o \in kept : CommonCount(op["user_id"], o) >= 1
              /\ \A o \in kept, p \in graph.users \ (kept \cup {op["user_id"]}) :
                    CommonCount(op["user_id"], p) <= CommonCount(op["user_id"], o)
              /\ \A p \in graph.users \ (kept \cup {op["user_id"]}) :
                    CommonCount(op["user_id"], p) >= 1 => Cardinality(kept) = 5

\* Six users share liked movies with the target, one of them fewer than the
\* others, and the call returned.
C22_Witness ==
    /\ RecommendedForUser
    /\ ~result.raised
    /\ Cardinality(Neighbours(op["user_id"])) = 6
    /\ \E p \in Neighbours(op["user_id"]) :
          \A o \in Neighbours(op["user_id"]) \ {p} :
              CommonCount(op["user_id"], p) < CommonCount(op["user_id"], o)

---------------------------------------------------------------------------
(* Further properties of the collaborative recommendations (checked under  *)
(* SpecGraph).                                                             *)

\* The target has nobody to take recommendations from: it does not exist, it
\* likes no movie, or no other user likes a movie it likes.
NoNeighbourCase ==
    \/ op["user_id"] \notin graph.users
    \/ \A m \in GraphMovieIds : ~Likes(op["user_id"], m)
    \/ Neighbours(op["user_id"]) = {}

\* Claim C23: get_recommended_movies_for_user returns the empty list, without
\* raising, when the target user has liked no movie, when no other user likes
\* any of the target's liked movies, and when the user id does not exist.
C23_EmptyWithoutRaising ==
    (RecommendedForUser /\ NoNeighbourCase) =>
        /\ ~result.raised
        /\ result.value = <<>>

---------------------------------------------------------------------------
(* Properties of the analysis history and the emotion profile (checked     *)
(* under SpecHistory).                                                     *)

ProfileDimensions == {"joy", "sadness", "fear", "anger", "surprise", "disgust"}

\* The stored analyses of the users with an email.
StoredFor(email) ==
    {i \in 1..Len(accounts.performed) :
        accounts.users[accounts.performed[i].user]["email"] = email}

\* What a stored analysis says of a dimension: nothing said counts as 0.
StoredDimension(i, k) ==
    IF \E member \in accounts.performed[i].emotions_json : member[1] = k
    THEN (CHOOSE member \in accounts.performed[i].emotions_json : member[1] = k)[2]
    ELSE Zero

RECURSIVE TotalStored(_, _, _)
TotalStored(email, k, i) ==
    IF i = 0 THEN Zero
    ELSE IF i \in StoredFor(email)
         THEN RatAdd(StoredDimension(i, k), TotalStored(email, k, i - 1))
         ELSE TotalStored(email, k, i - 1)

ProfileRead == op["name"] = "get_emotion_profile"

\* What a profile read returns: the mean, or zeros without analyses.
ProfileIsMean ==
    ProfileRead =>
        /\ DOMAIN result = ProfileDimensions
        /\ \A k \in ProfileDimensions :
              IF StoredFor(op["email"]) = {}
              THEN result[k] = Zero
              ELSE IsMean(result[k],
                          TotalStored(op["email"], k, Len(accounts.performed)),
                          Cardinality(StoredFor(op["email"])))

\* A step keeps every stored analysis, and a save_analysis that returns an
\* analysis has stored it after them.
HistoryKept ==
    /\ Len(accounts'.performed) >= Len(accounts.performed)
    /\ \A i \in 1..Len(accounts.performed) :
          accounts'.performed[i] = accounts.performed[i]
    /\ (Idle /\ op'["name"] = "save_analysis" /\ ~result'["none"]) =>
          /\ Len(accounts'.performed) = Len(accounts.performed) + 1
          /\ accounts'.users[accounts'.performed[Len(accounts'.performed)].user]["email"]
                = op'["email"]
          /\ accounts'.performed[Len(accounts'.performed)].emotions_json
                = {<<k, op'["emotions"][k]>> : k \in DOMAIN op'["emotions"]}

\* Claim C24: after save_analysis calls served one at a time, every analysis
\* saved so far is still stored, and get_emotion_profile returns for each of
\* joy, sadness, fear, anger, surprise and disgust the arithmetic mean of that
\* dimension over all the stored analyses of the user; for a user without
\* analyses it returns the all-zero profile, neither an error nor null.
C24_ProfileIsMeanOfHistory == [][HistoryKept]_vars /\ []ProfileIsMean

\* A profile read for a user with two stored analyses of different joy,
\* while another user has an analysis too.
C24_Witness ==
    /\ ProfileRead
    /\ Cardinality(StoredFor(op["email"])) >= 2
    /\ \E i, j \in StoredFor(op["email"]) :
          StoredDimension(i, "joy") # StoredDimension(j, "joy")
    /\ \E other \in Emails \ {op["email"]} : StoredFor(other) # {}
    /\ result["joy"] # Zero

\* A profile read for a registered user without analyses.
C24_WitnessNoAnalyses ==
    /\ ProfileRead
    /\ get_user_by_email(accounts, op["email"])
    /\ StoredFor(op["email"]) = {}

---------------------------------------------------------------------------
(* Failure of the classifier (checked under SpecPure).                     *)

\* The classifier failed on review j: the model's classifier never gives the
\* neutral scores itself, so analyze_text gives them for a non-empty text
\* only through its except branch.
ClassifierFailed(j) ==
    /\ op["reviews"][j] # ""
    /\ op["all_emotions"][j] = NeutralScores

\* Claim C25: when the classifier fails while a text is analysed the failure
\* reaches the caller as an error: analyze_reviews returns no profile into
\* which an ordinary vector standing for the failed text has been averaged.
C25_ClassifierFailurePropagated ==
    (AggregateCalled /\ \E j \in 1..Len(op["reviews"]) : ClassifierFailed(j))
        => ~IsProfile(result)

---------------------------------------------------------------------------
(* Properties of requests served at the same time (checked under           *)
(* SpecSaveRace).                                                          *)

AllCompleted == \A w \in Workers : WorkerIdle(w)

\* The stored profile of the email's node is the mean of its stored analyses.
StoredProfileIsMean(email) ==
    \A u \in UsersByEmail(accounts, email) :
        /\ "profile" \in DOMAIN accounts.users[u]
        /\ \A k \in ProfileDimensions :
              IsMean(accounts.users[u]["profile"][k],
                     TotalStored(email, k, Len(accounts.performed)),
                     Cardinality(StoredFor(email)))

\* Claim C26: for every interleaving of save_analysis calls for the same user
\* (create the analysis, read all analyses, set the profile), once all calls
\* have completed the stored profile is the per-dimension mean over all the
\* stored analyses of that user: no completed analysis is left out.
C26_ProfileAfterConcurrentSaves ==
    AllCompleted =>
        \A email \in Emails : StoredFor(email) # {} => StoredProfileIsMean(email)

---------------------------------------------------------------------------
(* Lifecycle of the WATCHED relationships (checked under SpecGraph).       *)

\* A step removes no relationship, changes none but the one of the call, and
\* a call for an existing user leaves on its pair what the call says.
InteractionKept ==
    /\ DOMAIN graph.watched \subseteq DOMAIN graph'.watched
    /\ \A pair \in DOMAIN graph.watched :
          graph'.watched[pair] # graph.watched[pair] =>
              /\ op'["name"] = "add_movie_interaction"
              /\ pair = <<op'["user_id"], op'["movie_id"]>>
    /\ (Idle /\ op'["name"] = "add_movie_interaction"
             /\ op'["user_id"] \in graph.users) =>
          /\ <<op'["user_id"], op'["movie_id"]>> \in DOMAIN graph'.watched
          /\ graph'.watched[<<op'["user_id"], op'["movie_id"]>>] = op'["properties"]
          /\ DOMAIN graph'.watched \subseteq
                DOMAIN graph.watched \cup {<<op'["user_id"], op'["movie_id"]>>}

LikedRead == op["name"] = "get_user_liked_movies"

\* The liked movies are returned, each once, and nothing else.
LikedAreReturned ==
    LikedRead =>
        /\ {result[i] : i \in 1..Len(result)} =
              {m \in GraphMovieIds : Likes(op["user_id"], m)}
        /\ \A i, j \in 1..Len(result) : i # j => result[i] # result[j]

\* A movie the user has marked not liked is still not recommended to them.
UnlikedStayExcluded ==
    RecommendedForUser =>
        \A i \in 1..Len(result.value) :
            ~(/\ <<op["user_id"], result.value[i]>> \in DOMAIN graph.watched
              /\ ~graph.watched[<<op["user_id"], result.value[i]>>].liked)

---------------------------------------------------------------------------
(* Agreement of the two genre fallbacks (checked under SpecPure).          *)

\* What the fallback that was not called gives for the genres `names`.
OtherFallbackOf(names) ==
    IF ServiceFallbackCalled THEN route_generate_emotions_from_genres(GenreDicts(names))
    ELSE generate_emotions_from_genres([genres |-> GenreDicts(names)])

\* The value of dimension e in a profile of either fallback.
ValueIn(profile, e) ==
    IF "base_emotions" \in DOMAIN profile /\ e \in DOMAIN profile["base_emotions"]
    THEN profile["base_emotions"][e] ELSE profile[e]

AgreedDimensions ==
    {"joy", "sadness", "fear", "anger", "surprise", "disgust",
     "thrill", "romance", "humor", "inspiration"}

\* Claim C28: for every list of genres the fallback of RecommendationService
\* and the fallback of the movies route give the same value for each of the
\* ten dimensions and the same dominant_emotion, also when no listed genre is
\* in the table.
C28_FallbacksAgree ==
    GenreFallbackCalled =>
        /\ \A e \in AgreedDimensions :
              ResultValue(e) = ValueIn(OtherFallbackOf(op["genres"]), e)
        /\ result["dominant_emotion"] = OtherFallbackOf(op["genres"])["dominant_emotion"]

---------------------------------------------------------------------------
(* Properties of the watchlist (checked under SpecWatch).                  *)

\* The entries of movie m in the watchlist of the user with the email.
Entries(a, email, m) ==
    Cardinality({i \in 1..Len(a.wants) :
                    /\ a.users[a.wants[i].user]["email"] = email
                    /\ a.wants[i].movie = m})

\* The entries of the watchlist of the user with the email.
WatchlistSize(a, email) ==
    Cardinality({i \in 1..Len(a.wants) : a.users[a.wants[i].user]["email"] = email})

Registered(a, email) == \E u \in 1..Len(a.users) : a.users[u]["email"] = email

\* The call the step takes, if it takes one.
Calls(name) == Idle /\ op'["name"] = name

\* What a step does to the entries of (email, m): an add by the registered
\* user leaves one, a remove or a clear by the user leaves none, and every
\* other step leaves what there was.
EntriesAfter(email, m) ==
    IF Calls("add_to_watchlist") /\ op'["email"] = email /\ op'["movie_id"] = m
          /\ Registered(accounts, email)
    THEN 1
    ELSE IF Calls("remove_from_watchlist") /\ op'["email"] = email
               /\ op'["movie_id"] = m
         THEN 0
         ELSE IF Calls("clear_watchlist") /\ op'["email"] = email
              THEN 0
              ELSE Entries(accounts, email, m)

WatchlistStep ==
    /\ \A email \in Emails, m \in GraphMovieIds :
          Entries(accounts', email, m) = EntriesAfter(email, m)
    /\ Calls("add_to_watchlist") => (result' = Registered(accounts, op'["email"]))
    /\ Calls("remove_from_watchlist") =>
          (result' = (Entries(accounts, op'["email"], op'["movie_id"]) > 0))
    /\ Calls("clear_watchlist") => (result' = WatchlistSize(accounts, op'["email"]))
    /\ Calls("is_in_watchlist") =>
          (result' = (Entries(accounts, op'["email"], op'["movie_id"]) > 0))

\* Claim C29: under add_to_watchlist, remove_from_watchlist and
\* clear_watchlist a user's watchlist is a set: is_in_watchlist(u, m) is true
\* exactly when the last of those calls that affected (u, m) was an add,
\* adding a movie already there leaves one entry, remove returns true exactly
\* when the movie was there, clear returns the number of entries it removed,
\* and a call for user u leaves the watchlist of every other user as it was.
C29_WatchlistIsASet == [][WatchlistStep]_vars

\* A remove returned true for a movie that is also on the other user's
\* watchlist, where it still is, while the user keeps another movie.
C29_Witness ==
    /\ op["name"] = "remove_from_watchlist"
    /\ result = TRUE
    /\ Entries(accounts, op["email"], op["movie_id"]) = 0
    /\ WatchlistSize(accounts, op["email"]) > 0
    /\ \E other \in Emails \ {op["email"]} :
          Entries(accounts, other, op["movie_id"]) = 1

---------------------------------------------------------------------------
(* Properties of registration (checked under SpecRegisterRace).            *)

AtMostOneUserPerEmail ==
    \A email \in Emails : Cardinality(UsersByEmail(accounts, email)) <= 1

\* A register that reaches its creation step while the email is registered
\* fails with "Email already registered" and creates no user.
RegisteredEmailRefused ==
    \A w \in Workers :
        (/\ requests[w]["name"] = "register"
         /\ requests[w]["at"] = "create"
         /\ requests'[w] # requests[w]
         /\ Registered(accounts, requests[w]["email"])) =>
            /\ accounts' = accounts
            /\ requests'[w]["raised"]
            /\ requests'[w]["detail"] = "Email already registered"

\* Claim C30: after any interleaving of register requests at most one user
\* exists per email: a register for a registered email fails with "Email
\* already registered" and creates no user, and two registers for the same new
\* email served at the same time do not both create a user.
C30_OneUserPerEmail == []AtMostOneUserPerEmail /\ [][RegisteredEmailRefused]_vars

============================================================================
